---- MODULE Spec2Model ----
(***************************************************************************)
(* Tournament engine of the club application: schedule generation          *)
(* (round robin, single elimination, group + knockout), result submission  *)
(* with bracket advancement, and the standings calculation.                *)
(*                                                                         *)
(* The table tournament_matches of one tournament is the sequence          *)
(* `matches`; a row's id is its position in the sequence.  Text is a       *)
(* sequence of one-character strings, so that splitting, trimming and      *)
(* number conversion are computed as the code computes them.               *)
(***************************************************************************)
EXTENDS Integers, Sequences, FiniteSets, TLC

VARIABLES
    participants,   \* rows of tournament_participants, in query order
    matches,        \* rows of tournament_matches, in insertion order
    format,         \* tournaments.format
    args,           \* arguments of the call or request under way
    standings,      \* value returned by calculateGroupStandings
    response,       \* HTTP status of the last request handled (0: none yet)
    nreq,           \* number of requests handled so far
    pc,             \* position of the caller
    bookings        \* rows of bookings, in insertion order

vars == <<participants, matches, format, args, standings, response, nreq, pc, bookings>>

(***************************************************************************)
(* Bounds of the model.                                                    *)
(***************************************************************************)
MaxN == 6             \* participants handed to a single generator call
MaxGroupN == 4        \* participants handed to the group + knockout generator
MaxGroup == 2         \* largest group_number of a participant
MaxStartRound == 2    \* largest startRound argument
MaxGroupsCount == 2   \* largest groupsCount argument

(***************************************************************************)
(* Values.                                                                 *)
(***************************************************************************)
NULL == "null"                 \* SQL NULL / JS null / undefined
BYE == "BYE"                   \* id of the synthetic round-robin entry
NoText == <<NULL>>             \* a null text column (no character is "null")
NullNum == -1                  \* a null INT column (group_number is never negative)

IdNames == <<"p1", "p2", "p3", "p4", "p5", "p6", "p7", "p8", "p9">>

\* Lists of n participants with distinct ids, in every order.
IdLists(n) ==
    { [i \in 1..n |-> IdNames[f[i]]] :
        f \in { g \in [1..n -> 1..n] : \A i, j \in 1..n : i # j => g[i] # g[j] } }

Participant(id, group) == [id |-> id, group_number |-> group]

ParticipantIdsOf(ps) == { ps[i].id : i \in DOMAIN ps }

\* Concatenation of a sequence of sequences.
RECURSIVE Flatten(_)
Flatten(ss) == IF ss = <<>> THEN <<>> ELSE Head(ss) \o Flatten(Tail(ss))

(***************************************************************************)
(* A row as the insert statements of the generators leave it: the columns  *)
(* they do not name take the defaults of the schema.                       *)
(***************************************************************************)
NewMatch(round, matchNumber, stage, groupNumber, p1, p2) ==
    [ round |-> round, match_number |-> matchNumber, stage |-> stage,
      group_number |-> groupNumber,
      participant1_id |-> p1, participant2_id |-> p2,
      score |-> NoText, winner_id |-> NULL, status |-> "pending",
      scheduled_date |-> NULL ]

(***************************************************************************)
(* generateRoundRobinMatches                                               *)
(***************************************************************************)
\* Variant: the last player is reinserted at index 0, so the first is not fixed.
RotatePlayersWhole(playerList) ==
    <<playerList[Len(playerList)]>> \o SubSeq(playerList, 1, Len(playerList) - 1)

\* const last = playerList.pop()!; playerList.splice(1, 0, last);
RotatePlayers(playerList) ==
    LET last == playerList[Len(playerList)]
        rest == SubSeq(playerList, 1, Len(playerList) - 1)
    IN  SubSeq(rest, 1, 1) \o <<last>> \o SubSeq(rest, 2, Len(rest))

\* Variant: the match number is the loop index itself, counted from 0.
RoundPairingsZeroBased(playerList, round, groupNumber) ==
    LET numPlayers == Len(playerList)
        half == numPlayers \div 2
        slot(match) ==
            LET home == playerList[match + 1]
                away == playerList[numPlayers - 1 - match + 1]
            IN  IF home.id # BYE /\ away.id # BYE
                THEN << NewMatch(round + 1, match,
                                 IF groupNumber # NullNum THEN "group" ELSE "knockout",
                                 groupNumber, home.id, away.id) >>
                ELSE <<>>
    IN  Flatten([k \in 1..half |-> slot(k - 1)])

\* The inner loop: match = 0 .. half - 1, pairing match with numPlayers-1-match.
RoundPairings(playerList, round, groupNumber) ==
    LET numPlayers == Len(playerList)
        half == numPlayers \div 2
        slot(match) ==
            LET home == playerList[match + 1]
                away == playerList[numPlayers - 1 - match + 1]
            IN  IF home.id # BYE /\ away.id # BYE
                THEN << NewMatch(round + 1, match + 1,
                                 IF groupNumber # NullNum THEN "group" ELSE "knockout",
                                 groupNumber, home.id, away.id) >>
                ELSE <<>>
    IN  Flatten([k \in 1..half |-> slot(k - 1)])

\* The outer loop: for (round = 0; round < rounds; round++) { ...; rotate }
RECURSIVE RoundRobinLoop(_, _, _, _)
RoundRobinLoop(playerList, round, rounds, groupNumber) ==
    IF round < rounds
    THEN RoundPairings(playerList, round, groupNumber)
         \o RoundRobinLoop(RotatePlayers(playerList), round + 1, rounds, groupNumber)
    ELSE <<>>

\* Variant: as many rounds as participants, also for an even count.
RoundRobinMatchesNRounds(ps, groupNumber) ==
    LET n == Len(ps)
        playerList == IF n % 2 = 1 THEN Append(ps, Participant(BYE, NullNum)) ELSE ps
    IN  RoundRobinLoop(playerList, 0, n, groupNumber)

\* The rows the function inserts (nothing is inserted when the list is empty).
RoundRobinMatches(ps, groupNumber) ==
    LET n == Len(ps)
        rounds == IF n % 2 = 0 THEN n - 1 ELSE n
        playerList == IF n % 2 = 1 THEN Append(ps, Participant(BYE, NullNum)) ELSE ps
    IN  RoundRobinLoop(playerList, 0, rounds, groupNumber)

(***************************************************************************)
(* generateSingleEliminationMatches                                        *)
(***************************************************************************)
RECURSIVE Pow2(_)
Pow2(r) == IF r <= 0 THEN 1 ELSE 2 * Pow2(r - 1)

\* Math.ceil(Math.log2(n)) for n >= 1: the least r with 2^r >= n.
RECURSIVE CeilLog2From(_, _)
CeilLog2From(n, r) == IF Pow2(r) >= n THEN r ELSE CeilLog2From(n, r + 1)
CeilLog2(n) == CeilLog2From(n, 0)

\* seeded[i] for a 0-based index: the participant, or null past the end.
SeededId(ps, index) == IF index + 1 <= Len(ps) THEN ps[index + 1].id ELSE NULL

\* Variant: neighbouring seeds are paired (2i against 2i+1).
FirstRoundPairingAdjacent(ps, bracketSize, startRound, i) ==
    NewMatch(startRound, i + 1, "knockout", NullNum,
             SeededId(ps, 2 * i), SeededId(ps, 2 * i + 1))

\* Variant: the opponent is counted back from the last participant instead of
\* from the last bracket slot.
FirstRoundPairingByCount(ps, bracketSize, startRound, i) ==
    NewMatch(startRound, i + 1, "knockout", NullNum,
             SeededId(ps, i), SeededId(ps, Len(ps) - 1 - i))

\* First round: i = 0 .. firstRoundMatches - 1, seeded[i] against
\* seeded[bracketSize - 1 - i].
FirstRoundPairing(ps, bracketSize, startRound, i) ==
    LET p1Index == i
        p2Index == bracketSize - 1 - i
    IN  NewMatch(startRound, i + 1, "knockout", NullNum,
                 SeededId(ps, p1Index), SeededId(ps, p2Index))

\* Variant: the number of matches is not halved from round to round.
RECURSIVE PlaceholderRoundsNoHalving(_, _, _)
PlaceholderRoundsNoHalving(round, lastRound, matchesInRound) ==
    IF round < lastRound
    THEN [i \in 1..matchesInRound |->
             NewMatch(round, i, "knockout", NullNum, NULL, NULL)]
         \o PlaceholderRoundsNoHalving(round + 1, lastRound, matchesInRound)
    ELSE <<>>

\* Placeholder rounds: round = startRound+1 .. startRound+rounds-1, the number of
\* matches halving from firstRoundMatches / 2.
RECURSIVE PlaceholderRounds(_, _, _)
PlaceholderRounds(round, lastRound, matchesInRound) ==
    IF round < lastRound
    THEN [i \in 1..matchesInRound |->
             NewMatch(round, i, "knockout", NullNum, NULL, NULL)]
         \o PlaceholderRounds(round + 1, lastRound, matchesInRound \div 2)
    ELSE <<>>

\* The rows the function inserts.  n = 0: log2 is -Infinity, bracketSize 0, no row.
\* n = 1: rounds 0, bracketSize 1, firstRoundMatches 0.5: the first loop runs once,
\* for i = 0, and pairs seeded[0] with seeded[0]; no placeholder round.
SingleEliminationMatches(ps, startRound) ==
    LET n == Len(ps)
    IN  IF n = 0 THEN <<>>
        ELSE IF n = 1 THEN << FirstRoundPairing(ps, 1, startRound, 0) >>
        ELSE
            LET rounds == CeilLog2(n)
                bracketSize == Pow2(rounds)
                firstRoundMatches == bracketSize \div 2
            IN  [k \in 1..firstRoundMatches |->
                     FirstRoundPairing(ps, bracketSize, startRound, k - 1)]
                \o PlaceholderRounds(startRound + 1, startRound + rounds,
                                     firstRoundMatches \div 2)

(***************************************************************************)
(* generateGroupKnockoutMatches                                            *)
(***************************************************************************)
\* Variant: no default group for a participant without group number.
GroupNumOfRaw(p) == p.group_number

\* const groupNum = p.group_number || 1;
GroupNumOf(p) == IF p.group_number = NullNum \/ p.group_number = 0 THEN 1 ELSE p.group_number

\* Keys of the Map in insertion order: the groups in order of first appearance.
RECURSIVE GroupKeys(_, _)
GroupKeys(ps, seen) ==
    IF ps = <<>> THEN <<>>
    ELSE LET g == GroupNumOf(Head(ps))
         IN  IF g \in seen THEN GroupKeys(Tail(ps), seen)
             ELSE <<g>> \o GroupKeys(Tail(ps), seen \cup {g})

GroupMembers(ps, groupNum) == SelectSeq(ps, LAMBDA p : GroupNumOf(p) = groupNum)

\* One round-robin insert per group, in Map order.
GroupKnockoutMatches(ps, groupsCount) ==
    LET keys == GroupKeys(ps, {})
    IN  Flatten([k \in 1..Len(keys) |->
                    RoundRobinMatches(GroupMembers(ps, keys[k]), keys[k])])

(***************************************************************************)
(* Specifications of the generators: the arguments are drawn in Init, the  *)
(* call inserts its rows into the empty table.                             *)
(***************************************************************************)
NoArgs == [kind |-> "none"]

InitRoundRobin ==
    /\ \E n \in 0..MaxN : \E ids \in IdLists(n) :
         participants = [i \in 1..n |-> Participant(ids[i], NullNum)]
    /\ \E g \in {NullNum} \cup 1..MaxGroup : args = [kind |-> "rr", groupNumber |-> g]
    /\ matches = <<>>
    /\ format = "round_robin"
    /\ standings = <<>>
    /\ bookings = <<>>
    /\ response = 0
    /\ nreq = 0
    /\ pc = "call"

CallGenerateRoundRobin ==
    /\ pc = "call"
    /\ args.kind = "rr"
    /\ matches' = matches \o RoundRobinMatches(participants, args.groupNumber)
    /\ pc' = "done"
    /\ UNCHANGED <<bookings, participants, format, args, standings, response, nreq>>

SpecRoundRobin == InitRoundRobin /\ [][CallGenerateRoundRobin]_vars

InitSingleElim ==
    /\ \E n \in 0..MaxN : \E ids \in IdLists(n) :
         participants = [i \in 1..n |-> Participant(ids[i], NullNum)]
    /\ \E s \in 1..MaxStartRound : args = [kind |-> "se", startRound |-> s]
    /\ matches = <<>>
    /\ format = "single_elimination"
    /\ standings = <<>>
    /\ bookings = <<>>
    /\ response = 0
    /\ nreq = 0
    /\ pc = "call"

CallGenerateSingleElimination ==
    /\ pc = "call"
    /\ args.kind = "se"
    /\ matches' = matches \o SingleEliminationMatches(participants, args.startRound)
    /\ pc' = "done"
    /\ UNCHANGED <<bookings, participants, format, args, standings, response, nreq>>

SpecSingleElim == InitSingleElim /\ [][CallGenerateSingleElimination]_vars

InitGroupKnockout ==
    /\ \E n \in 0..MaxGroupN :
         \E gs \in [1..n -> {NullNum} \cup 1..MaxGroup] :
            participants = [i \in 1..n |-> Participant(IdNames[i], gs[i])]
    /\ \E c \in 1..MaxGroupsCount : args = [kind |-> "gk", groupsCount |-> c]
    /\ matches = <<>>
    /\ format = "group_knockout"
    /\ standings = <<>>
    /\ bookings = <<>>
    /\ response = 0
    /\ nreq = 0
    /\ pc = "call"

CallGenerateGroupKnockout ==
    /\ pc = "call"
    /\ args.kind = "gk"
    /\ matches' = matches \o GroupKnockoutMatches(participants, args.groupsCount)
    /\ pc' = "done"
    /\ UNCHANGED <<bookings, participants, format, args, standings, response, nreq>>

SpecGroupKnockout == InitGroupKnockout /\ [][CallGenerateGroupKnockout]_vars

(***************************************************************************)
(* advanceWinnerToNextRound                                                *)
(***************************************************************************)
\* Math.ceil(x / 2) for an integer x >= 0.
CeilHalf(x) == IF x % 2 = 0 THEN x \div 2 ELSE x \div 2 + 1

\* Variant: the next match number is rounded down.
NextMatchNumberFloor(match) == match.match_number \div 2

NextMatchNumber(match) == CeilHalf(match.match_number)

\* Variant: the even match of a pair is taken as the first.
IsFirstOfPairEven(match) == match.match_number % 2 = 0

IsFirstOfPair(match) == match.match_number % 2 = 1

\* Rows that satisfy the predicate of knockoutMatches.find(...).
AdvanceTargets(ms, match) ==
    { k \in DOMAIN ms :
        /\ ms[k].stage = "knockout"
        /\ ms[k].round = match.round + 1
        /\ ms[k].match_number = NextMatchNumber(match) }

\* find returns the first row in the order of getTournamentMatches: stage,
\* group_number (nulls last), round, match_number.  The targets agree on stage,
\* round and match_number; rows that also agree on group_number come in an order
\* the query leaves open.
GroupOrderKey(row) == IF row.group_number = NullNum THEN 1 ELSE 0

FirstTargets(ms, match) ==
    { k \in AdvanceTargets(ms, match) :
        \A j \in AdvanceTargets(ms, match) :
            \/ GroupOrderKey(ms[k]) < GroupOrderKey(ms[j])
            \/ /\ GroupOrderKey(ms[k]) = GroupOrderKey(ms[j])
               /\ ms[k].group_number <= ms[j].group_number }

\* Variant: the winner is always written into the first slot.
AdvanceWriteFirstSlot(ms, match, k) ==
    [ms EXCEPT ![k].participant1_id = match.winner_id]

\* Variant: the winner is written into both slots of the next match.
AdvanceWriteBothSlots(ms, match, k) ==
    [ms EXCEPT ![k].participant1_id = match.winner_id,
               ![k].participant2_id = match.winner_id]

\* update(isFirstOfPair ? {participant1_id} : {participant2_id}).eq("id", nextMatch.id)
AdvanceWrite(ms, match, k) ==
    IF IsFirstOfPair(match)
    THEN [ms EXCEPT ![k].participant1_id = match.winner_id]
    ELSE [ms EXCEPT ![k].participant2_id = match.winner_id]

\* Variant: the stage of the match is not looked at.
AdvanceWinnerAnyStage(ms, match) ==
    IF match.winner_id = NULL
    THEN {ms}
    ELSE IF AdvanceTargets(ms, match) = {}
         THEN {ms}
         ELSE { AdvanceWrite(ms, match, k) : k \in FirstTargets(ms, match) }

\* The tables the call can leave behind.
AdvanceWinnerToNextRound(ms, match) ==
    IF match.winner_id = NULL \/ match.stage # "knockout"
    THEN {ms}
    ELSE IF AdvanceTargets(ms, match) = {}
         THEN {ms}
         ELSE { AdvanceWrite(ms, match, k) : k \in FirstTargets(ms, match) }

(***************************************************************************)
(* Row updates of the library.                                             *)
(***************************************************************************)
UpdateMatchResult(ms, matchId, score, winnerId) ==
    [ms EXCEPT ![matchId] =
        [@ EXCEPT !.score = score, !.winner_id = winnerId, !.status = "completed"]]

UpdateMatchSchedule(ms, matchId, scheduledDate) ==
    [ms EXCEPT ![matchId].scheduled_date = scheduledDate]

\* The rows a generator call inserts for the tournament's format.
GenerateForFormat(fmt, ps, groupsCount) ==
    IF fmt = "round_robin" THEN RoundRobinMatches(ps, NullNum)
    ELSE IF fmt = "single_elimination" THEN SingleEliminationMatches(ps, 1)
    ELSE IF fmt = "group_knockout" THEN GroupKnockoutMatches(ps, groupsCount)
    ELSE <<>>

(***************************************************************************)
(* The three generator entry points side by side.                          *)
(***************************************************************************)
InitGenerators == InitRoundRobin \/ InitSingleElim \/ InitGroupKnockout

NextGenerators ==
    \/ CallGenerateRoundRobin
    \/ CallGenerateSingleElimination
    \/ CallGenerateGroupKnockout

SpecGenerators == InitGenerators /\ [][NextGenerators]_vars

(***************************************************************************)
(* Specification of advanceWinnerToNextRound alone: a generated schedule,  *)
(* and calls with a row of it that carries any winner.                     *)
(***************************************************************************)
MaxCalls == 2         \* calls of advanceWinnerToNextRound in one behaviour
MaxBracketN == 5      \* participants of the schedule the calls work on

Formats == {"round_robin", "single_elimination", "group_knockout"}

InitAdvance ==
    /\ format \in Formats
    /\ \E n \in 2..MaxBracketN :
         participants = [i \in 1..n |->
                            Participant(IdNames[i],
                                        IF format = "group_knockout" THEN 1 ELSE NullNum)]
    \* The group stage alone, or followed by the bracket that a later call of
    \* generateSingleEliminationMatches inserts for the knockout stage.
    /\ \E bracket \in BOOLEAN :
         matches = GenerateForFormat(format, participants, 1)
                   \o (IF bracket /\ format = "group_knockout"
                       THEN SingleEliminationMatches(participants, 1)
                       ELSE <<>>)
    /\ args = NoArgs
    /\ standings = <<>>
    /\ bookings = <<>>
    /\ response = 0
    /\ nreq = 0
    /\ pc = "call"

CallAdvanceWinner ==
    /\ pc = "call"
    /\ nreq < MaxCalls
    /\ \E k \in DOMAIN matches : \E w \in ParticipantIdsOf(participants) \cup {NULL} :
         LET match == [matches[k] EXCEPT !.winner_id = w]
         IN  /\ args' = [kind |-> "advance", match |-> match, before |-> matches]
             /\ matches' \in AdvanceWinnerToNextRound(matches, match)
    /\ nreq' = nreq + 1
    /\ UNCHANGED <<bookings, participants, format, standings, response, pc>>

SpecAdvance == InitAdvance /\ [][CallAdvanceWinner]_vars

(***************************************************************************)
(* The request handlers.  A session user is null (no session), "admin",    *)
(* "guest" (signed in, no participant of the tournament) or the id of the  *)
(* participant the user is registered as.                                  *)
(***************************************************************************)
MaxPlayers == 3       \* participants of the tournament the requests work on
MaxRequests == 3      \* requests handled in one behaviour

UNDEFINED == "undefined"       \* a key the request body does not carry
ADMIN == "admin"
GUEST == "guest"
SomeDate == "2025-06-01"
SomeScore == <<"6", "-", "4">>

\* !score
TextFalsy(t) == t = NoText \/ t = <<>>

\* [match.participant1_id, match.participant2_id].filter(Boolean)
FilledSlots(row) == {row.participant1_id, row.participant2_id} \ {NULL}

Outcome(code, ms) == [code |-> code, matches |-> ms]

\* Variant: the winner is validated against the participants of the
\* tournament, not against the slots of the match.
PatchMatchOutcomesAnyParticipant(ms, ps, user, matchId, score, winnerId, scheduledDate) ==
    IF user = NULL THEN {Outcome(401, ms)}
    ELSE IF matchId \notin DOMAIN ms THEN {Outcome(404, ms)}
    ELSE IF user # ADMIN /\ user \notin ParticipantIdsOf(ps) THEN {Outcome(403, ms)}
    ELSE IF user # ADMIN /\ user \notin FilledSlots(ms[matchId]) THEN {Outcome(403, ms)}
    ELSE IF scheduledDate # UNDEFINED
         THEN {Outcome(200, UpdateMatchSchedule(ms, matchId, scheduledDate))}
    ELSE IF TextFalsy(score) \/ winnerId = NULL THEN {Outcome(400, ms)}
    ELSE IF winnerId \notin ParticipantIdsOf(ps) THEN {Outcome(400, ms)}
    ELSE LET stored == UpdateMatchResult(ms, matchId, score, winnerId)
             updatedMatch == stored[matchId]
         IN  { Outcome(200, after) : after \in AdvanceWinnerToNextRound(stored, updatedMatch) }

\* PATCH /api/tournaments/[id]/matches/[matchId]: the responses it can give,
\* each with the table it leaves behind.
PatchMatchOutcomes(ms, ps, user, matchId, score, winnerId, scheduledDate) ==
    IF user = NULL THEN {Outcome(401, ms)}
    ELSE IF matchId \notin DOMAIN ms THEN {Outcome(404, ms)}
    ELSE IF user # ADMIN /\ user \notin ParticipantIdsOf(ps) THEN {Outcome(403, ms)}
    ELSE IF user # ADMIN /\ user \notin FilledSlots(ms[matchId]) THEN {Outcome(403, ms)}
    ELSE IF scheduledDate # UNDEFINED
         THEN {Outcome(200, UpdateMatchSchedule(ms, matchId, scheduledDate))}
    ELSE IF TextFalsy(score) \/ winnerId = NULL THEN {Outcome(400, ms)}
    ELSE IF winnerId \notin FilledSlots(ms[matchId]) THEN {Outcome(400, ms)}
    ELSE LET stored == UpdateMatchResult(ms, matchId, score, winnerId)
             updatedMatch == stored[matchId]
         IN  { Outcome(200, after) : after \in AdvanceWinnerToNextRound(stored, updatedMatch) }

\* POST /api/tournaments/[id]/matches with a body without manualMatches.
PostMatchesOutcome(ms, ps, fmt, groupsCount, user) ==
    IF user = NULL THEN Outcome(401, ms)
    ELSE IF user # ADMIN THEN Outcome(403, ms)
    ELSE IF Len(ps) < 2 THEN Outcome(400, ms)
    ELSE IF Len(ms) > 0 THEN Outcome(400, ms)
    ELSE LET after == ms \o GenerateForFormat(fmt, ps, groupsCount)
         IN  IF Len(after) > 0 THEN Outcome(200, after) ELSE Outcome(500, after)

\* PATCH /api/tournaments/[id] with action generate_matches.
GenerateMatchesOutcome(ms, ps, fmt, groupsCount, user) ==
    IF user = NULL THEN Outcome(401, ms)
    ELSE IF user # ADMIN THEN Outcome(403, ms)
    ELSE IF Len(ps) < 2 THEN Outcome(400, ms)
    ELSE Outcome(200, GenerateForFormat(fmt, ps, groupsCount))

\* Participants as getTournamentParticipants returns them: by group_number,
\* nulls last.
GroupSorted(gs) ==
    \A i, j \in DOMAIN gs :
        i < j => \/ gs[j] = NullNum
                 \/ (gs[i] # NullNum /\ gs[i] <= gs[j])

Init ==
    /\ format \in Formats
    /\ \E n \in 1..MaxPlayers :
         \E gs \in { g \in [1..n -> {NullNum} \cup 1..MaxGroup] : GroupSorted(g) } :
            /\ format # "group_knockout" => \A i \in 1..n : gs[i] = NullNum
            /\ participants = [i \in 1..n |-> Participant(IdNames[i], gs[i])]
    /\ matches = <<>>
    /\ args = NoArgs
    /\ standings = <<>>
    /\ bookings = <<>>
    /\ response = 0
    /\ nreq = 0
    /\ pc = "serving"

PostMatches ==
    /\ pc = "serving"
    /\ nreq < MaxRequests
    /\ \E user \in {NULL, GUEST, ADMIN} :
         LET o == PostMatchesOutcome(matches, participants, format, MaxGroup, user)
         IN  /\ matches' = o.matches
             /\ response' = o.code
             /\ args' = [kind |-> "post"]
    /\ nreq' = nreq + 1
    /\ UNCHANGED <<bookings, participants, format, standings, pc>>

PatchGenerateMatches ==
    /\ pc = "serving"
    /\ nreq < MaxRequests
    /\ \E user \in {NULL, GUEST, ADMIN} :
         LET o == GenerateMatchesOutcome(matches, participants, format, MaxGroup, user)
         IN  /\ matches' = o.matches
             /\ response' = o.code
             /\ args' = [kind |-> "generate_matches"]
    /\ nreq' = nreq + 1
    /\ UNCHANGED <<bookings, participants, format, standings, pc>>

PatchMatch ==
    /\ pc = "serving"
    /\ nreq < MaxRequests
    /\ \E user \in {NULL, GUEST, ADMIN} \cup ParticipantIdsOf(participants) :
       \E matchId \in 0..Len(matches) :
       \E score \in {NoText, <<>>, SomeScore} :
       \E winnerId \in {NULL} \cup ParticipantIdsOf(participants) :
       \E scheduledDate \in {UNDEFINED, SomeDate} :
       \E o \in PatchMatchOutcomes(matches, participants, user, matchId,
                                   score, winnerId, scheduledDate) :
            /\ matches' = o.matches
            /\ response' = o.code
            /\ args' = [kind |-> "patch", matchId |-> matchId]
    /\ nreq' = nreq + 1
    /\ UNCHANGED <<bookings, participants, format, standings, pc>>

Next == PostMatches \/ PatchGenerateMatches \/ PatchMatch

Spec == Init /\ [][Next]_vars

(***************************************************************************)
(* Specification of a bracket being played: the schedule of a              *)
(* single-elimination tournament is in the table, and match requests       *)
(* (results and dates) are handled one after the other.                    *)
(***************************************************************************)
MaxSubmits == 4       \* match requests handled in one behaviour

InitBracket ==
    /\ format = "single_elimination"
    /\ \E n \in 2..MaxBracketN :
         participants = [i \in 1..n |-> Participant(IdNames[i], NullNum)]
    /\ matches = GenerateForFormat(format, participants, 1)
    /\ args = NoArgs
    /\ standings = <<>>
    /\ bookings = <<>>
    /\ response = 0
    /\ nreq = 0
    /\ pc = "serving"

PatchBracketMatch ==
    /\ pc = "serving"
    /\ nreq < MaxSubmits
    /\ \E user \in {ADMIN, IdNames[1]} :
       \E matchId \in 0..Len(matches) :
       \E winnerId \in {NULL} \cup ParticipantIdsOf(participants) :
       \E scheduledDate \in {UNDEFINED, SomeDate} :
       \E o \in PatchMatchOutcomes(matches, participants, user, matchId,
                                   SomeScore, winnerId, scheduledDate) :
            /\ matches' = o.matches
            /\ response' = o.code
            /\ args' = [kind |-> "patch", matchId |-> matchId]
    /\ nreq' = nreq + 1
    /\ UNCHANGED <<bookings, participants, format, standings, pc>>

SpecBracket == InitBracket /\ [][PatchBracketMatch]_vars

(***************************************************************************)
(* Specification of a bracket played to its end: every match that has a    *)
(* participant and whose feeders are completed receives one result, a      *)
(* request of an admin naming one of its participants as winner.           *)
(***************************************************************************)
\* The rows of the round before that feed row k.
FeedersOfRow(ms, k) ==
    { j \in DOMAIN ms :
        /\ ms[j].round = ms[k].round - 1
        /\ ms[j].match_number \in {2 * ms[k].match_number - 1, 2 * ms[k].match_number} }

ReadyToPlay(ms, k) ==
    /\ ms[k].status # "completed"
    /\ FilledSlots(ms[k]) # {}
    /\ \A j \in FeedersOfRow(ms, k) : ms[j].status = "completed"

PlayReadyMatch ==
    /\ pc = "serving"
    /\ \E matchId \in DOMAIN matches :
         /\ ReadyToPlay(matches, matchId)
         /\ \E winnerId \in FilledSlots(matches[matchId]) :
            \E o \in PatchMatchOutcomes(matches, participants, ADMIN, matchId,
                                        SomeScore, winnerId, UNDEFINED) :
                 /\ matches' = o.matches
                 /\ response' = o.code
                 /\ args' = [kind |-> "patch", matchId |-> matchId]
    /\ UNCHANGED <<bookings, participants, format, standings, nreq, pc>>

SpecPlay == InitBracket /\ [][PlayReadyMatch]_vars /\ WF_vars(PlayReadyMatch)

(***************************************************************************)
(* Specification of the validation of match requests: a generated schedule *)
(* of any format, with or without a first result, and requests of any user *)
(* with any body; the request and the table before it are kept in args.    *)
(***************************************************************************)
InitSubmit ==
    /\ format \in Formats
    /\ \E n \in 2..MaxPlayers :
         participants = [i \in 1..n |->
                            Participant(IdNames[i],
                                        IF format = "group_knockout" THEN 1 ELSE NullNum)]
    \* The schedule as generated, or after one result stored by an admin.
    /\ LET schedule == GenerateForFormat(format, participants, 1)
           played(k, w) == UpdateMatchResult(schedule, k, SomeScore, w)
       IN  matches \in {schedule} \cup
               UNION { UNION { AdvanceWinnerToNextRound(played(k, w), played(k, w)[k]) :
                                 w \in FilledSlots(schedule[k]) } :
                         k \in DOMAIN schedule }
    /\ args = NoArgs
    /\ standings = <<>>
    /\ bookings = <<>>
    /\ response = 0
    /\ nreq = 0
    /\ pc = "serving"

PatchMatchRecorded ==
    /\ pc = "serving"
    /\ \E user \in {NULL, GUEST, ADMIN, IdNames[1]} :
       \E matchId \in 0..Len(matches) :
       \E score \in {NoText, <<>>, SomeScore} :
       \E winnerId \in {NULL} \cup ParticipantIdsOf(participants) :
       \E scheduledDate \in {UNDEFINED, SomeDate} :
       \E o \in PatchMatchOutcomes(matches, participants, user, matchId,
                                   score, winnerId, scheduledDate) :
            /\ matches' = o.matches
            /\ response' = o.code
            /\ args' = [kind |-> "patch", matchId |-> matchId, user |-> user,
                        score |-> score, winnerId |-> winnerId,
                        scheduledDate |-> scheduledDate, before |-> matches]
    /\ pc' = "done"
    /\ UNCHANGED <<bookings, participants, format, standings, nreq>>

SpecSubmit == InitSubmit /\ [][PatchMatchRecorded]_vars

(***************************************************************************)
(* Specification of the handlers with a storage that can refuse a          *)
(* statement.  A refused delete leaves the rows in place and               *)
(* deleteAllMatches returns false; a refused insert stores none of its     *)
(* rows and the generator throws.                                          *)
(***************************************************************************)
\* The insert statements the generator of the format issues, in order: one for
\* the round robin and for the bracket, one per group for group + knockout
\* (a generator with no row issues none).
InsertBatches(fmt, ps) ==
    LET all == IF fmt = "group_knockout"
               THEN LET keys == GroupKeys(ps, {})
                    IN  [k \in 1..Len(keys) |->
                            RoundRobinMatches(GroupMembers(ps, keys[k]), keys[k])]
               ELSE << GenerateForFormat(fmt, ps, 1) >>
    IN  SelectSeq(all, LAMBDA b : b # <<>>)

FaultOutcome(code, ms, deleteFailed, failedInsert) ==
    [code |-> code, matches |-> ms, deleteFailed |-> deleteFailed,
     failedInsert |-> failedInsert]

\* PATCH /api/tournaments/[id] with action generate_matches: the result of
\* deleteAllMatches is not looked at, the inserts follow one by one, and the
\* first refused insert ends the request with 500.  failedInsert = 0 stands for
\* no refused insert.
GenerateMatchesFaultOutcomes(ms, ps, fmt, user) ==
    IF user = NULL THEN {FaultOutcome(401, ms, FALSE, 0)}
    ELSE IF user # ADMIN THEN {FaultOutcome(403, ms, FALSE, 0)}
    ELSE IF Len(ps) < 2 THEN {FaultOutcome(400, ms, FALSE, 0)}
    ELSE LET batches == InsertBatches(fmt, ps)
             kept(deleteFailed) == IF deleteFailed THEN ms ELSE <<>>
             stored(failedInsert) ==
                 IF failedInsert = 0 THEN Flatten(batches)
                 ELSE Flatten(SubSeq(batches, 1, failedInsert - 1))
         IN  { FaultOutcome(IF failedInsert = 0 THEN 200 ELSE 500,
                            kept(deleteFailed) \o stored(failedInsert),
                            deleteFailed, failedInsert) :
                 deleteFailed \in BOOLEAN, failedInsert \in 0..Len(batches) }

PatchGenerateMatchesFaulty ==
    /\ pc = "serving"
    /\ nreq < MaxRequests
    /\ \E user \in {NULL, GUEST, ADMIN} :
       \E o \in GenerateMatchesFaultOutcomes(matches, participants, format, user) :
            /\ matches' = o.matches
            /\ response' = o.code
            /\ args' = [kind |-> "generate_matches", before |-> matches,
                        deleteFailed |-> o.deleteFailed,
                        failedInsert |-> o.failedInsert]
    /\ nreq' = nreq + 1
    /\ UNCHANGED <<bookings, participants, format, standings, pc>>

NextFaults == PostMatches \/ PatchMatch \/ PatchGenerateMatchesFaulty

SpecFaults == Init /\ [][NextFaults]_vars

(***************************************************************************)
(* Specification of two result requests handled at the same time.  Each    *)
(* request is an admin's PATCH with a score and a winner; its awaits are   *)
(* the steps: getMatchById, updateMatchResult, getMatchById again,         *)
(* getTournamentMatches inside advanceWinnerToNextRound, and the update of *)
(* the next match.  pc, args and response hold one entry per request.      *)
(***************************************************************************)
MaxRaceN == 5         \* participants of the bracket the two requests work on

Requests == {1, 2}

InitRace ==
    /\ format = "single_elimination"
    /\ \E n \in 2..MaxRaceN :
         participants = [i \in 1..n |-> Participant(IdNames[i], NullNum)]
    /\ matches = GenerateForFormat(format, participants, 1)
    /\ \E ids \in [Requests -> DOMAIN matches] :
       \E ws \in [Requests -> ParticipantIdsOf(participants)] :
          args = [r \in Requests |->
                     [matchId |-> ids[r], winnerId |-> ws[r], match |-> NULL,
                      updatedMatch |-> NULL, nextMatch |-> 0]]
    /\ standings = <<>>
    /\ bookings = <<>>
    /\ response = [r \in Requests |-> 0]
    /\ nreq = 0
    /\ pc = [r \in Requests |-> "getMatch"]

\* const match = await getMatchById(matchId); the winner is validated against
\* this copy.
RaceGetMatch(r) ==
    /\ pc[r] = "getMatch"
    /\ LET match == matches[args[r].matchId]
       IN  /\ args' = [args EXCEPT ![r].match = match]
           /\ IF args[r].winnerId \in FilledSlots(match)
              THEN /\ pc' = [pc EXCEPT ![r] = "updateMatchResult"]
                   /\ UNCHANGED response
              ELSE /\ pc' = [pc EXCEPT ![r] = "done"]
                   /\ response' = [response EXCEPT ![r] = 400]
    /\ UNCHANGED <<bookings, participants, matches, format, standings, nreq>>

\* await updateMatchResult(matchId, score, winnerId)
RaceUpdateMatchResult(r) ==
    /\ pc[r] = "updateMatchResult"
    /\ matches' = UpdateMatchResult(matches, args[r].matchId, SomeScore, args[r].winnerId)
    /\ pc' = [pc EXCEPT ![r] = "getUpdatedMatch"]
    /\ UNCHANGED <<bookings, participants, format, args, standings, response, nreq>>

\* const updatedMatch = await getMatchById(matchId), and the first statement of
\* advanceWinnerToNextRound.
RaceGetUpdatedMatch(r) ==
    /\ pc[r] = "getUpdatedMatch"
    /\ LET updatedMatch == matches[args[r].matchId]
       IN  /\ args' = [args EXCEPT ![r].updatedMatch = updatedMatch]
           /\ IF updatedMatch.winner_id = NULL \/ updatedMatch.stage # "knockout"
              THEN /\ pc' = [pc EXCEPT ![r] = "done"]
                   /\ response' = [response EXCEPT ![r] = 200]
              ELSE /\ pc' = [pc EXCEPT ![r] = "getTournamentMatches"]
                   /\ UNCHANGED response
    /\ UNCHANGED <<bookings, participants, matches, format, standings, nreq>>

\* const allMatches = await getTournamentMatches(tournamentId); nextMatch =
\* knockoutMatches.find(...)
RaceFindNextMatch(r) ==
    /\ pc[r] = "getTournamentMatches"
    /\ IF AdvanceTargets(matches, args[r].updatedMatch) = {}
       THEN /\ pc' = [pc EXCEPT ![r] = "done"]
            /\ response' = [response EXCEPT ![r] = 200]
            /\ UNCHANGED args
       ELSE /\ \E k \in FirstTargets(matches, args[r].updatedMatch) :
                 args' = [args EXCEPT ![r].nextMatch = k]
            /\ pc' = [pc EXCEPT ![r] = "updateNextMatch"]
            /\ UNCHANGED response
    /\ UNCHANGED <<bookings, participants, matches, format, standings, nreq>>

\* await supabase.from("tournament_matches").update(update).eq("id", nextMatch.id)
RaceUpdateNextMatch(r) ==
    /\ pc[r] = "updateNextMatch"
    /\ matches' = AdvanceWrite(matches, args[r].updatedMatch, args[r].nextMatch)
    /\ pc' = [pc EXCEPT ![r] = "done"]
    /\ response' = [response EXCEPT ![r] = 200]
    /\ UNCHANGED <<bookings, participants, format, args, standings, nreq>>

NextRace ==
    \E r \in Requests :
        \/ RaceGetMatch(r)
        \/ RaceUpdateMatchResult(r)
        \/ RaceGetUpdatedMatch(r)
        \/ RaceFindNextMatch(r)
        \/ RaceUpdateNextMatch(r)

SpecRace == InitRace /\ [][NextRace]_vars

(***************************************************************************)
(* Text.  The characters of the model are the digits, the space, "-", ","  *)
(* and the letter "a"; Number() is modelled on texts over these.           *)
(***************************************************************************)
DigitChars == <<"0", "1", "2", "3", "4", "5", "6", "7", "8", "9">>

IsDigit(c) == \E d \in 1..10 : DigitChars[d] = c

DigitValue(c) == (CHOOSE d \in 1..10 : DigitChars[d] = c) - 1

\* String.prototype.split(sep) for a one-character separator: the pieces
\* between the separators, empty pieces included.
RECURSIVE SplitFrom(_, _, _)
SplitFrom(t, sep, piece) ==
    IF t = <<>> THEN <<piece>>
    ELSE IF Head(t) = sep THEN <<piece>> \o SplitFrom(Tail(t), sep, <<>>)
    ELSE SplitFrom(Tail(t), sep, Append(piece, Head(t)))

Split(t, sep) == SplitFrom(t, sep, <<>>)

\* String.prototype.trim()
RECURSIVE TrimStart(_)
TrimStart(t) == IF t # <<>> /\ Head(t) = " " THEN TrimStart(Tail(t)) ELSE t

RECURSIVE TrimEnd(_)
TrimEnd(t) ==
    IF t # <<>> /\ t[Len(t)] = " " THEN TrimEnd(SubSeq(t, 1, Len(t) - 1)) ELSE t

Trim(t) == TrimEnd(TrimStart(t))

RECURSIVE DecimalValue(_, _)
DecimalValue(t, acc) ==
    IF t = <<>> THEN acc ELSE DecimalValue(Tail(t), 10 * acc + DigitValue(Head(t)))

NaN == [nan |-> TRUE, value |-> 0]

\* Number(text): surrounding white space is dropped, the empty text is 0, a run
\* of digits is its decimal value, anything else is NaN.
ToNumber(t) ==
    LET body == Trim(t)
    IN  IF \A i \in DOMAIN body : IsDigit(body[i])
        THEN [nan |-> FALSE, value |-> DecimalValue(body, 0)]
        ELSE NaN

(***************************************************************************)
(* calculateGroupStandings                                                 *)
(***************************************************************************)
ZeroStanding(p) ==
    [ participant |-> p, played |-> 0, won |-> 0, lost |-> 0,
      sets_won |-> 0, sets_lost |-> 0, games_won |-> 0, games_lost |-> 0,
      points |-> 0 ]

\* standings.set(p.id, {...}) for each participant, in order: a later entry
\* with the same id replaces the value and keeps the position of the first.
RECURSIVE InitialKeys(_, _)
InitialKeys(ps, seen) ==
    IF ps = <<>> THEN <<>>
    ELSE IF Head(ps).id \in seen THEN InitialKeys(Tail(ps), seen)
    ELSE <<Head(ps).id>> \o InitialKeys(Tail(ps), seen \cup {Head(ps).id})

InitialStandings(ps) ==
    [ id \in ParticipantIdsOf(ps) |->
        ZeroStanding(ps[CHOOSE i \in DOMAIN ps :
                           /\ ps[i].id = id
                           /\ \A j \in DOMAIN ps : ps[j].id = id => j <= i]) ]

\* const [g1, g2] = set.split("-").map(Number); the tally of one set fragment.
NoTally == [p1Sets |-> 0, p2Sets |-> 0, p1Games |-> 0, p2Games |-> 0]

\* Variant: a set with equal game counts is credited to participant 1.
SetTallyTieToFirst(set) ==
    LET parts == Split(set, "-")
        g1 == ToNumber(parts[1])
        g2 == IF Len(parts) >= 2 THEN ToNumber(parts[2]) ELSE NaN
    IN  IF ~g1.nan /\ ~g2.nan
        THEN [ p1Sets |-> IF g1.value >= g2.value THEN 1 ELSE 0,
               p2Sets |-> IF g2.value > g1.value THEN 1 ELSE 0,
               p1Games |-> g1.value, p2Games |-> g2.value ]
        ELSE NoTally

SetTally(set) ==
    LET parts == Split(set, "-")
        g1 == ToNumber(parts[1])
        g2 == IF Len(parts) >= 2 THEN ToNumber(parts[2]) ELSE NaN
    IN  IF ~g1.nan /\ ~g2.nan
        THEN [ p1Sets |-> IF g1.value > g2.value THEN 1 ELSE 0,
               p2Sets |-> IF g2.value > g1.value THEN 1 ELSE 0,
               p1Games |-> g1.value, p2Games |-> g2.value ]
        ELSE NoTally

\* sets.forEach(...): the tallies of the fragments added up.
RECURSIVE SumTallies(_)
SumTallies(sets) ==
    IF sets = <<>> THEN NoTally
    ELSE LET h == SetTally(Head(sets))
             r == SumTallies(Tail(sets))
         IN  [ p1Sets |-> h.p1Sets + r.p1Sets, p2Sets |-> h.p2Sets + r.p2Sets,
               p1Games |-> h.p1Games + r.p1Games, p2Games |-> h.p2Games + r.p2Games ]

\* match.score.split(",").map((s) => s.trim())
ScoreSets(score) ==
    LET pieces == Split(score, ",") IN [i \in DOMAIN pieces |-> Trim(pieces[i])]

\* Variant: the loser is not counted when participant 2 wins.
CountMatchLoserForgotten(st, match) ==
    LET p1 == match.participant1_id
        p2 == match.participant2_id
    IN  IF p1 \notin DOMAIN st \/ p2 \notin DOMAIN st THEN st
        ELSE
            LET t == SumTallies(ScoreSets(match.score))
                s1 == [st EXCEPT ![p1] =
                          [@ EXCEPT !.played = @ + 1,
                                    !.sets_won = @ + t.p1Sets,
                                    !.sets_lost = @ + t.p2Sets,
                                    !.games_won = @ + t.p1Games,
                                    !.games_lost = @ + t.p2Games]]
                s2 == [s1 EXCEPT ![p2] =
                          [@ EXCEPT !.played = @ + 1,
                                    !.sets_won = @ + t.p2Sets,
                                    !.sets_lost = @ + t.p1Sets,
                                    !.games_won = @ + t.p2Games,
                                    !.games_lost = @ + t.p1Games]]
            IN  IF match.winner_id = p1
                THEN [s2 EXCEPT ![p1] = [@ EXCEPT !.won = @ + 1, !.points = @ + 3],
                                ![p2] = [@ EXCEPT !.lost = @ + 1]]
                ELSE [s2 EXCEPT ![p2] = [@ EXCEPT !.won = @ + 1, !.points = @ + 3]]

\* Variant: each participant that has a standing is counted on its own.
CountMatchKnownSide(st, match) ==
    LET p1 == match.participant1_id
        p2 == match.participant2_id
        t == SumTallies(ScoreSets(match.score))
        s1 == IF p1 \notin DOMAIN st THEN st
              ELSE [st EXCEPT ![p1] =
                       [@ EXCEPT !.played = @ + 1,
                                 !.sets_won = @ + t.p1Sets,
                                 !.sets_lost = @ + t.p2Sets,
                                 !.games_won = @ + t.p1Games,
                                 !.games_lost = @ + t.p2Games,
                                 !.won = @ + (IF match.winner_id = p1 THEN 1 ELSE 0),
                                 !.lost = @ + (IF match.winner_id = p1 THEN 0 ELSE 1),
                                 !.points = @ + (IF match.winner_id = p1 THEN 3 ELSE 0)]]
    IN  IF p2 \notin DOMAIN s1 THEN s1
        ELSE [s1 EXCEPT ![p2] =
                 [@ EXCEPT !.played = @ + 1,
                           !.sets_won = @ + t.p2Sets,
                           !.sets_lost = @ + t.p1Sets,
                           !.games_won = @ + t.p2Games,
                           !.games_lost = @ + t.p1Games,
                           !.won = @ + (IF match.winner_id = p1 THEN 0 ELSE 1),
                           !.lost = @ + (IF match.winner_id = p1 THEN 1 ELSE 0),
                           !.points = @ + (IF match.winner_id = p1 THEN 0 ELSE 3)]]

\* The body of the forEach for one completed match.  The two standings are
\* updated one after the other, so a match of a participant against itself
\* counts twice on the one standing, as it does on the shared object.
CountMatch(st, match) ==
    LET p1 == match.participant1_id
        p2 == match.participant2_id
    IN  IF p1 \notin DOMAIN st \/ p2 \notin DOMAIN st THEN st
        ELSE
            LET t == SumTallies(ScoreSets(match.score))
                s1 == [st EXCEPT ![p1] =
                          [@ EXCEPT !.played = @ + 1,
                                    !.sets_won = @ + t.p1Sets,
                                    !.sets_lost = @ + t.p2Sets,
                                    !.games_won = @ + t.p1Games,
                                    !.games_lost = @ + t.p2Games]]
                s2 == [s1 EXCEPT ![p2] =
                          [@ EXCEPT !.played = @ + 1,
                                    !.sets_won = @ + t.p2Sets,
                                    !.sets_lost = @ + t.p1Sets,
                                    !.games_won = @ + t.p2Games,
                                    !.games_lost = @ + t.p1Games]]
            IN  IF match.winner_id = p1
                THEN [s2 EXCEPT ![p1] = [@ EXCEPT !.won = @ + 1, !.points = @ + 3],
                                ![p2] = [@ EXCEPT !.lost = @ + 1]]
                ELSE [s2 EXCEPT ![p2] = [@ EXCEPT !.won = @ + 1, !.points = @ + 3],
                                ![p1] = [@ EXCEPT !.lost = @ + 1]]

\* Variant: the status of a match is not looked at.
RECURSIVE CountMatchesAnyStatus(_, _)
CountMatchesAnyStatus(st, ms) ==
    IF ms = <<>> THEN st
    ELSE IF ~TextFalsy(Head(ms).score)
         THEN CountMatchesAnyStatus(CountMatch(st, Head(ms)), Tail(ms))
         ELSE CountMatchesAnyStatus(st, Tail(ms))

\* matches.filter((m) => m.status === "completed" && m.score).forEach(...)
RECURSIVE CountMatches(_, _)
CountMatches(st, ms) ==
    IF ms = <<>> THEN st
    ELSE IF Head(ms).status = "completed" /\ ~TextFalsy(Head(ms).score)
         THEN CountMatches(CountMatch(st, Head(ms)), Tail(ms))
         ELSE CountMatches(st, Tail(ms))

\* Variant: the set difference is compared before the points.
CompareStandingsSetsFirst(a, b) ==
    LET aSetDiff == a.sets_won - a.sets_lost
        bSetDiff == b.sets_won - b.sets_lost
    IN  IF bSetDiff # aSetDiff THEN bSetDiff - aSetDiff
        ELSE IF b.points # a.points THEN b.points - a.points
        ELSE (b.games_won - b.games_lost) - (a.games_won - a.games_lost)

\* The comparator handed to sort: negative when a comes first.
CompareStandings(a, b) ==
    IF b.points # a.points THEN b.points - a.points
    ELSE LET aSetDiff == a.sets_won - a.sets_lost
             bSetDiff == b.sets_won - b.sets_lost
         IN  IF bSetDiff # aSetDiff THEN bSetDiff - aSetDiff
             ELSE (b.games_won - b.games_lost) - (a.games_won - a.games_lost)

\* Array.prototype.sort is stable: x goes behind every element it does not
\* precede.
RECURSIVE InsertStanding(_, _)
InsertStanding(sorted, x) ==
    IF sorted = <<>> THEN <<x>>
    ELSE IF CompareStandings(x, Head(sorted)) < 0 THEN <<x>> \o sorted
    ELSE <<Head(sorted)>> \o InsertStanding(Tail(sorted), x)

RECURSIVE SortStandings(_, _)
SortStandings(sorted, rest) ==
    IF rest = <<>> THEN sorted
    ELSE SortStandings(InsertStanding(sorted, Head(rest)), Tail(rest))

CalculateGroupStandings(ps, ms) ==
    LET keys == InitialKeys(ps, {})
        st == CountMatches(InitialStandings(ps), ms)
    IN  SortStandings(<<>>, [i \in DOMAIN keys |-> st[keys[i]]])

(***************************************************************************)
(* Specification of the score parsing: one completed match whose score is  *)
(* written out from a list of set results <<g1, g2>>, alone or after an    *)
(* earlier match, handed to calculateGroupStandings.                       *)
(***************************************************************************)
MaxGames == 2         \* largest game count of an enumerated set result
MaxSets == 2          \* largest number of sets of an enumerated score

RECURSIVE FormatNumber(_)
FormatNumber(n) ==
    IF n < 10 THEN <<DigitChars[n + 1]>>
    ELSE FormatNumber(n \div 10) \o <<DigitChars[(n % 10) + 1]>>

\* The ways a well-formed score is written: "6-4,3-6", "6-4, 3-6" (the form of
\* the comment in the code) and " 6 - 4 , 3 - 6 ".
ScoreStyles == {"compact", "spaced", "padded"}

FormatFragment(f, style) ==
    IF style = "padded"
    THEN <<" ">> \o FormatNumber(f[1]) \o <<" ", "-", " ">> \o FormatNumber(f[2]) \o <<" ">>
    ELSE FormatNumber(f[1]) \o <<"-">> \o FormatNumber(f[2])

RECURSIVE FormatScore(_, _)
FormatScore(fs, style) ==
    IF Len(fs) = 1 THEN FormatFragment(fs[1], style)
    ELSE FormatFragment(fs[1], style)
         \o (IF style = "spaced" THEN <<",", " ">> ELSE <<",">>)
         \o FormatScore(Tail(fs), style)

\* The score of the comment in the code, and one with two-digit game counts.
ExampleScores == { << <<6, 4>>, <<3, 6>>, <<7, 5>> >>, << <<7, 6>>, <<6, 7>>, <<10, 12>> >> }

EnumeratedScores ==
    UNION { [1..len -> (0..MaxGames) \X (0..MaxGames)] : len \in 1..MaxSets }

CompletedMatch(round, p1, p2, score, winner) ==
    [ NewMatch(round, 1, "group", 1, p1, p2)
        EXCEPT !.score = score, !.winner_id = winner, !.status = "completed" ]

InitScore ==
    /\ participants = [i \in 1..3 |-> Participant(IdNames[i], 1)]
    /\ \E fs \in ExampleScores \cup EnumeratedScores :
       \E style \in ScoreStyles :
       \E a, b \in ParticipantIdsOf(participants) :
       \E w \in {a, b} :
       \E earlier \in BOOLEAN :
          /\ a # b
          /\ args = [kind |-> "standings", fragments |-> fs]
          /\ matches =
                (IF earlier THEN << CompletedMatch(1, b, a, <<"7", "-", "5">>, b) >>
                 ELSE <<>>)
                \o << CompletedMatch(2, a, b, FormatScore(fs, style), w) >>
    /\ format = "group_knockout"
    /\ standings = <<>>
    /\ bookings = <<>>
    /\ response = 0
    /\ nreq = 0
    /\ pc = "call"

CallCalculateStandings ==
    /\ pc = "call"
    /\ args.kind = "standings"
    /\ standings' = CalculateGroupStandings(participants, matches)
    /\ pc' = "done"
    /\ UNCHANGED <<bookings, participants, matches, format, args, response, nreq>>

SpecScore == InitScore /\ [][CallCalculateStandings]_vars

(***************************************************************************)
(* Specification of the ranking: three participants in any order and a     *)
(* list of completed matches among them.                                   *)
(***************************************************************************)
MaxMatches == 2       \* matches handed to calculateGroupStandings

ScorePool == { <<"6", "-", "0">>, <<"4", "-", "6">> }

PlayedMatches(ids) ==
    UNION { { CompletedMatch(1, pr[1], pr[2], sc, w) : sc \in ScorePool, w \in {pr[1], pr[2]} } :
              pr \in { q \in ids \X ids : q[1] # q[2] } }

InitStandings ==
    /\ \E ids \in IdLists(3) : participants = [i \in 1..3 |-> Participant(ids[i], 1)]
    /\ \E len \in 0..MaxMatches :
         matches \in [1..len -> PlayedMatches(ParticipantIdsOf(participants))]
    /\ args = [kind |-> "standings", fragments |-> <<>>]
    /\ format = "group_knockout"
    /\ standings = <<>>
    /\ bookings = <<>>
    /\ response = 0
    /\ nreq = 0
    /\ pc = "call"

SpecStandings == InitStandings /\ [][CallCalculateStandings]_vars

(***************************************************************************)
(* Specification of the counting: three participants and a list of matches *)
(* of which one, the probe, is any row the table can hold: slots that are  *)
(* empty or name no participant of the list, any status, a score that is   *)
(* null, empty, well formed or not, and any winner.                        *)
(***************************************************************************)
MaxBase == 1          \* well-formed matches beside the probe

UNKNOWN == "p9"       \* the id of no participant of the list

MatchStatuses == {"pending", "in_progress", "completed"}

BaseMatches ==
    { CompletedMatch(1, "p1", "p2", <<"6", "-", "0">>, "p1"),
      CompletedMatch(1, "p2", "p3", <<"4", "-", "6">>, "p3"),
      CompletedMatch(1, "p3", "p1", <<"6", "-", "4">>, "p3") }

\* null, "", "6-4", "6", "a", "6-", "6-4-2", "6-a", "6-4,a", "a, 4-6"
ProbeScores ==
    { NoText, <<>>,
      <<"6", "-", "4">>,
      <<"6">>,
      <<"a">>,
      <<"6", "-">>,
      <<"6", "-", "4", "-", "2">>,
      <<"6", "-", "a">>,
      <<"6", "-", "4", ",", "a">>,
      <<"a", ",", " ", "4", "-", "6">> }

ProbeMatches ==
    { [ NewMatch(2, 1, "group", 1, a, b)
          EXCEPT !.score = sc, !.winner_id = w, !.status = st ] :
        a \in {"p1", NULL, UNKNOWN},
        b \in {"p2", "p1", NULL, UNKNOWN},
        sc \in ProbeScores,
        w \in {"p1", "p2", "p3", NULL},
        st \in MatchStatuses }

\* The list xs with x put in at position pos.
InsertAt(xs, pos, x) ==
    [i \in 1..(Len(xs) + 1) |->
        IF i < pos THEN xs[i] ELSE IF i = pos THEN x ELSE xs[i - 1]]

InitCounting ==
    /\ participants = [i \in 1..3 |-> Participant(IdNames[i], 1)]
    /\ \E len \in 0..MaxBase :
       \E base \in [1..len -> BaseMatches] :
       \E pos \in 1..(len + 1) :
       \E probe \in ProbeMatches :
          /\ matches = InsertAt(base, pos, probe)
          /\ args = [kind |-> "standings", fragments |-> <<>>, probe |-> pos]
    /\ format = "group_knockout"
    /\ standings = <<>>
    /\ bookings = <<>>
    /\ response = 0
    /\ nreq = 0
    /\ pc = "call"

SpecCounting == InitCounting /\ [][CallCalculateStandings]_vars

(***************************************************************************)
(* Specification of a standings request handled while a regeneration is    *)
(* handled: the regeneration deletes and then inserts statement by         *)
(* statement, the standings request reads the table with one query and     *)
(* computes from what it read.  pc holds one entry per request.            *)
(***************************************************************************)
MaxReadN == 4         \* participants of the tournament

\* Variant: only the rows without a result are deleted.
DeleteAllMatchesPending(ms) == SelectSeq(ms, LAMBDA m : m.status = "completed")

\* delete().eq("tournament_id", tournamentId)
DeleteAllMatches(ms) == <<>>

\* The order of getTournamentMatches: stage, group_number (nulls last), round,
\* match_number.
StageKey(row) == IF row.stage = "group" THEN 0 ELSE 1

MatchBefore(a, b) ==
    IF StageKey(a) # StageKey(b) THEN StageKey(a) < StageKey(b)
    ELSE IF GroupOrderKey(a) # GroupOrderKey(b) THEN GroupOrderKey(a) < GroupOrderKey(b)
    ELSE IF a.group_number # b.group_number THEN a.group_number < b.group_number
    ELSE IF a.round # b.round THEN a.round < b.round
    ELSE a.match_number < b.match_number

RECURSIVE InsertMatch(_, _)
InsertMatch(sorted, x) ==
    IF sorted = <<>> THEN <<x>>
    ELSE IF MatchBefore(x, Head(sorted)) THEN <<x>> \o sorted
    ELSE <<Head(sorted)>> \o InsertMatch(Tail(sorted), x)

RECURSIVE GetTournamentMatches(_)
GetTournamentMatches(ms) ==
    IF ms = <<>> THEN <<>>
    ELSE InsertMatch(GetTournamentMatches(SubSeq(ms, 1, Len(ms) - 1)), ms[Len(ms)])

\* The groups of the standings response, sorted by group number.
RECURSIVE InsertGroup(_, _)
InsertGroup(sorted, x) ==
    IF sorted = <<>> THEN <<x>>
    ELSE IF x.groupNumber - Head(sorted).groupNumber < 0 THEN <<x>> \o sorted
    ELSE <<Head(sorted)>> \o InsertGroup(Tail(sorted), x)

RECURSIVE SortGroups(_, _)
SortGroups(sorted, rest) ==
    IF rest = <<>> THEN sorted
    ELSE SortGroups(InsertGroup(sorted, Head(rest)), Tail(rest))

\* The body of GET /api/tournaments/[id]/standings after its reads.
StandingsResponse(fmt, ps, ms) ==
    IF fmt = "round_robin"
    THEN [standings |-> CalculateGroupStandings(ps, ms), groups |-> NULL]
    ELSE IF fmt = "group_knockout"
    THEN LET keys == GroupKeys(ps, {})
             groupStandings ==
                 [k \in 1..Len(keys) |->
                     [groupNumber |-> keys[k],
                      standings |->
                          CalculateGroupStandings(
                              GroupMembers(ps, keys[k]),
                              SelectSeq(ms, LAMBDA m : m.group_number = keys[k]))]]
         IN  [standings |-> NULL, groups |-> SortGroups(<<>>, groupStandings)]
    ELSE [standings |-> NULL, groups |-> NULL]

InitReadRace ==
    /\ format \in Formats
    /\ \E n \in 2..MaxReadN :
         \E gs \in { g \in [1..n -> 1..MaxGroup] : GroupSorted(g) } :
            participants = [i \in 1..n |->
                               Participant(IdNames[i],
                                           IF format = "group_knockout" THEN gs[i]
                                           ELSE NullNum)]
    \* The schedule as generated, or with the result of its first match stored.
    /\ \E played \in BOOLEAN :
         LET schedule == GenerateForFormat(format, participants, MaxGroup)
         IN  matches = IF played /\ schedule # <<>> /\ format # "single_elimination"
                       THEN UpdateMatchResult(schedule, 1, SomeScore,
                                              schedule[1].participant1_id)
                       ELSE schedule
    /\ args = [before |-> matches, batch |-> 1, read |-> <<>>, readAt |-> "none"]
    /\ standings = <<>>
    /\ bookings = <<>>
    /\ response = 0
    /\ nreq = 0
    /\ pc = [regen |-> "deleteAllMatches", get |-> "getTournamentMatches"]

\* await deleteAllMatches(id)
RegenDelete ==
    /\ pc.regen = "deleteAllMatches"
    /\ matches' = DeleteAllMatches(matches)
    /\ IF InsertBatches(format, participants) = <<>>
       THEN pc' = [pc EXCEPT !.regen = "done"] /\ response' = 200
       ELSE pc' = [pc EXCEPT !.regen = "insert"] /\ UNCHANGED response
    /\ UNCHANGED <<bookings, participants, format, args, standings, nreq>>

\* One insert statement of the generator.
RegenInsert ==
    /\ pc.regen = "insert"
    /\ LET batches == InsertBatches(format, participants)
       IN  /\ matches' = matches \o batches[args.batch]
           /\ args' = [args EXCEPT !.batch = @ + 1]
           /\ IF args.batch = Len(batches)
              THEN pc' = [pc EXCEPT !.regen = "done"] /\ response' = 200
              ELSE UNCHANGED <<pc, response>>
    /\ UNCHANGED <<bookings, participants, format, standings, nreq>>

\* const matches = await getTournamentMatches(id)
StandingsRead ==
    /\ pc.get = "getTournamentMatches"
    /\ args' = [args EXCEPT !.read = GetTournamentMatches(matches),
                            !.readAt = IF pc.regen = "insert" /\ args.batch > 1
                                       THEN "between inserts"
                                       ELSE pc.regen]
    /\ pc' = [pc EXCEPT !.get = "calculate"]
    /\ UNCHANGED <<bookings, participants, matches, format, standings, response, nreq>>

StandingsCalculate ==
    /\ pc.get = "calculate"
    /\ standings' = StandingsResponse(format, participants, args.read)
    /\ pc' = [pc EXCEPT !.get = "done"]
    /\ UNCHANGED <<bookings, participants, matches, format, args, response, nreq>>

NextReadRace == RegenDelete \/ RegenInsert \/ StandingsRead \/ StandingsCalculate

SpecReadRace == InitReadRace /\ [][NextReadRace]_vars

(***************************************************************************)
(* Specification of two POST generation requests of admins handled at the  *)
(* same time: each reads the existing matches, inserts the schedule        *)
(* statement by statement and reads the matches again.                     *)
(***************************************************************************)
InitPostRace ==
    /\ format \in Formats
    /\ \E n \in 2..MaxReadN :
         \E gs \in { g \in [1..n -> 1..MaxGroup] : GroupSorted(g) } :
            participants = [i \in 1..n |->
                               Participant(IdNames[i],
                                           IF format = "group_knockout" THEN gs[i]
                                           ELSE NullNum)]
    /\ \E generated \in BOOLEAN :
         matches = IF generated THEN GenerateForFormat(format, participants, MaxGroup)
                   ELSE <<>>
    /\ args = [r \in Requests |-> [existing |-> 0, batch |-> 1, before |-> <<>>]]
    /\ standings = <<>>
    /\ bookings = <<>>
    /\ response = [r \in Requests |-> 0]
    /\ nreq = 0
    /\ pc = [r \in Requests |-> "getTournamentMatches"]

\* const existingMatches = await getTournamentMatches(id)
PostCheckExisting(r) ==
    /\ pc[r] = "getTournamentMatches"
    /\ args' = [args EXCEPT ![r].existing = Len(matches), ![r].before = matches]
    /\ IF Len(matches) > 0
       THEN /\ pc' = [pc EXCEPT ![r] = "done"]
            /\ response' = [response EXCEPT ![r] = 400]
       ELSE /\ pc' = [pc EXCEPT ![r] =
                         IF InsertBatches(format, participants) = <<>>
                         THEN "getMatches" ELSE "insert"]
            /\ UNCHANGED response
    /\ UNCHANGED <<bookings, participants, matches, format, standings, nreq>>

\* One insert statement of the generator.
PostInsert(r) ==
    /\ pc[r] = "insert"
    /\ LET batches == InsertBatches(format, participants)
       IN  /\ matches' = matches \o batches[args[r].batch]
           /\ args' = [args EXCEPT ![r].batch = @ + 1]
           /\ pc' = [pc EXCEPT ![r] =
                        IF args[r].batch = Len(batches) THEN "getMatches" ELSE "insert"]
    /\ UNCHANGED <<bookings, participants, format, standings, response, nreq>>

\* const matches = await getTournamentMatches(id); 200 when there are any.
PostAnswer(r) ==
    /\ pc[r] = "getMatches"
    /\ response' = [response EXCEPT ![r] = IF Len(matches) > 0 THEN 200 ELSE 500]
    /\ pc' = [pc EXCEPT ![r] = "done"]
    /\ UNCHANGED <<bookings, participants, matches, format, args, standings, nreq>>

NextPostRace ==
    \E r \in Requests : PostCheckExisting(r) \/ PostInsert(r) \/ PostAnswer(r)

SpecPostRace == InitPostRace /\ [][NextPostRace]_vars

(***************************************************************************)
(* Specification of the booking requests.  A date is its distance in days  *)
(* from today's Swiss date.  The users are a regular user ("guest"), a     *)
(* participant of an active tournament and an admin.                       *)
(***************************************************************************)
MaxBookingRequests == 2   \* booking requests handled in one behaviour

PLAYER == "player"        \* a user getActiveTournamentsForUser finds a tournament for

BookingDates == {-1, 0, 3}

BookingHours == {5, 20, 21}

\* isDateInFuture, isDateWithinBookingWindow
IsDateInFuture(date) == date >= 0
IsDateWithinBookingWindow(date) == date >= 0 /\ date <= 2

Booking(userId, date, hour) == [user_id |-> userId, date |-> date, hour |-> hour]

\* getBookingByDateAndHour: the one row of the slot (single() fails on none
\* and on several).
BookingExists(bs, date, hour) ==
    Cardinality({ i \in DOMAIN bs : bs[i].date = date /\ bs[i].hour = hour }) = 1

\* getUserBookingsForDate(userId, date).length
UserBookingsForDate(bs, userId, date) ==
    Cardinality({ i \in DOMAIN bs : bs[i].user_id = userId /\ bs[i].date = date })

BookingOutcome(code, bs) == [code |-> code, bookings |-> bs]

\* POST /api/bookings
PostBookingOutcome(bs, user, date, hour, bookTwoHours, bookForUserId) ==
    LET isAdmin == user = ADMIN
        isTournamentPlayer == user = PLAYER
        userId == IF bookForUserId # NULL /\ isAdmin THEN bookForUserId ELSE user
    IN  IF user = NULL THEN BookingOutcome(401, bs)
        ELSE IF hour < 6 \/ hour > 21 THEN BookingOutcome(400, bs)
        ELSE IF bookTwoHours /\ hour > 20 THEN BookingOutcome(400, bs)
        ELSE IF ~IsDateInFuture(date) THEN BookingOutcome(400, bs)
        ELSE IF ~isAdmin /\ ~isTournamentPlayer /\ ~IsDateWithinBookingWindow(date)
             THEN BookingOutcome(400, bs)
        ELSE IF BookingExists(bs, date, hour) THEN BookingOutcome(400, bs)
        ELSE IF bookTwoHours /\ BookingExists(bs, date, hour + 1)
             THEN BookingOutcome(400, bs)
        ELSE IF ~isAdmin
                /\ UserBookingsForDate(bs, userId, date)
                      + (IF bookTwoHours /\ isTournamentPlayer THEN 2 ELSE 1)
                   > (IF isTournamentPlayer THEN 2 ELSE 1)
             THEN BookingOutcome(400, bs)
        ELSE BookingOutcome(201,
                 bs \o << Booking(userId, date, hour) >>
                    \o (IF bookTwoHours
                        THEN << Booking(userId, date, hour + 1) >> ELSE <<>>))

InitBooking ==
    /\ participants = <<>>
    /\ matches = <<>>
    /\ format = "round_robin"
    /\ args = NoArgs
    /\ standings = <<>>
    /\ bookings = <<>>
    /\ response = 0
    /\ nreq = 0
    /\ pc = "serving"

PostBooking ==
    /\ pc = "serving"
    /\ nreq < MaxBookingRequests
    /\ \E user \in {NULL, GUEST, PLAYER, ADMIN} :
       \E date \in BookingDates :
       \E hour \in BookingHours :
       \E bookTwoHours \in BOOLEAN :
       \E bookForUserId \in {NULL, GUEST} :
          LET o == PostBookingOutcome(bookings, user, date, hour, bookTwoHours,
                                      bookForUserId)
          IN  /\ bookings' = o.bookings
              /\ response' = o.code
              /\ args' = [kind |-> "booking", user |-> user, date |-> date,
                          hour |-> hour, bookTwoHours |-> bookTwoHours,
                          bookForUserId |-> bookForUserId, before |-> bookings]
    /\ nreq' = nreq + 1
    /\ UNCHANGED <<participants, matches, format, standings, pc>>

SpecBooking == InitBooking /\ [][PostBooking]_vars

(***************************************************************************)
(* Specification of the manual bracket editor.  matches is the editor's    *)
(* state: one record of two slots per first-round match, a slot holding a  *)
(* participant's id or null.  Match indices are counted from 1.            *)
(***************************************************************************)
MaxEditorN == 3   \* participants handed to the editor

EditorSlots == {"participant1", "participant2"}

UNKNOWN_ID == "p9"   \* dragged data that names no participant

EmptySlots(numMatches) ==
    [i \in 1..numMatches |-> [participant1 |-> NULL, participant2 |-> NULL]]

\* bracketSize / 2
NumMatches(ps) == Pow2(CeilLog2(Len(ps))) \div 2

\* getUnassignedParticipants: ids in no slot, in the order of participants
GetUnassignedParticipants(ps, ms) ==
    LET assigned == { ms[i][sl] : i \in DOMAIN ms, sl \in EditorSlots } \ {NULL}
    IN  SelectSeq([i \in DOMAIN ps |-> ps[i].id], LAMBDA id : id \notin assigned)

\* Variant: the dropped participant stays in the slot it came from.
HandleDropKeepsPrior(ps, ms, participantId, matchIndex, slot) ==
    IF participantId = BYE
    THEN [ms EXCEPT ![matchIndex][slot] = NULL]
    ELSE IF participantId \notin ParticipantIdsOf(ps) THEN ms
    ELSE [ms EXCEPT ![matchIndex][slot] = participantId]

\* handleDrop
HandleDrop(ps, ms, participantId, matchIndex, slot) ==
    IF participantId = BYE
    THEN [ms EXCEPT ![matchIndex][slot] = NULL]
    ELSE IF participantId \notin ParticipantIdsOf(ps) THEN ms
    ELSE LET newMatches ==
                 [i \in DOMAIN ms |->
                    [participant1 |-> IF ms[i].participant1 = participantId
                                      THEN NULL ELSE ms[i].participant1,
                     participant2 |-> IF ms[i].participant2 = participantId
                                      THEN NULL ELSE ms[i].participant2]]
         IN  [newMatches EXCEPT ![matchIndex][slot] = participantId]

\* removeFromSlot
RemoveFromSlot(ms, matchIndex, slot) == [ms EXCEPT ![matchIndex][slot] = NULL]

\* One loop of autoAssign over matches i..Len(ms): empty slots of the column
\* take the unassigned participants in order, while there are any.
RECURSIVE AutoAssignLoop(_, _, _, _)
AutoAssignLoop(ms, unassigned, slot, i) ==
    IF i > Len(ms) \/ unassigned = <<>>
    THEN [matches |-> ms, unassigned |-> unassigned]
    ELSE IF ms[i][slot] = NULL
         THEN AutoAssignLoop([ms EXCEPT ![i][slot] = Head(unassigned)],
                             Tail(unassigned), slot, i + 1)
         ELSE AutoAssignLoop(ms, unassigned, slot, i + 1)

\* autoAssign
AutoAssign(ps, ms) ==
    LET first == AutoAssignLoop(ms, GetUnassignedParticipants(ps, ms),
                                "participant1", 1)
    IN  AutoAssignLoop(first.matches, first.unassigned, "participant2", 1).matches

\* clearAll
ClearAll(ps) == EmptySlots(NumMatches(ps))

InitEditor ==
    /\ format = "single_elimination"
    /\ \E n \in 2..MaxEditorN :
         participants = [i \in 1..n |-> Participant(IdNames[i], NullNum)]
    /\ matches = EmptySlots(NumMatches(participants))
    /\ args = NoArgs
    /\ standings = <<>>
    /\ bookings = <<>>
    /\ response = 0
    /\ nreq = 0
    /\ pc = "editing"

EditorDrop ==
    /\ pc = "editing"
    /\ \E participantId \in ParticipantIdsOf(participants) \cup {BYE, UNKNOWN_ID} :
       \E matchIndex \in DOMAIN matches :
       \E slot \in EditorSlots :
          /\ matches' = HandleDrop(participants, matches, participantId,
                                   matchIndex, slot)
          /\ args' = [kind |-> "drop", participantId |-> participantId,
                      matchIndex |-> matchIndex, slot |-> slot, before |-> matches]
    /\ UNCHANGED <<bookings, participants, format, standings, response, nreq, pc>>

EditorRemoveFromSlot ==
    /\ pc = "editing"
    /\ \E matchIndex \in DOMAIN matches :
       \E slot \in EditorSlots :
          /\ matches' = RemoveFromSlot(matches, matchIndex, slot)
          /\ args' = [kind |-> "removeFromSlot", participantId |-> NULL,
                      matchIndex |-> matchIndex, slot |-> slot, before |-> matches]
    /\ UNCHANGED <<bookings, participants, format, standings, response, nreq, pc>>

EditorAutoAssign ==
    /\ pc = "editing"
    /\ matches' = AutoAssign(participants, matches)
    /\ args' = [kind |-> "autoAssign", participantId |-> NULL, matchIndex |-> 0,
                slot |-> NULL, before |-> matches]
    /\ UNCHANGED <<bookings, participants, format, standings, response, nreq, pc>>

EditorClearAll ==
    /\ pc = "editing"
    /\ matches' = ClearAll(participants)
    /\ args' = [kind |-> "clearAll", participantId |-> NULL, matchIndex |-> 0,
                slot |-> NULL, before |-> matches]
    /\ UNCHANGED <<bookings, participants, format, standings, response, nreq, pc>>

NextEditor ==
    \/ EditorDrop
    \/ EditorRemoveFromSlot
    \/ EditorAutoAssign
    \/ EditorClearAll

SpecEditor == InitEditor /\ [][NextEditor]_vars

(***************************************************************************)
(* Properties of the generated schedules.                                  *)
(***************************************************************************)
ParticipantIds == { participants[i].id : i \in DOMAIN participants }

\* Rows pairing a with b, in either order.
PairRows(a, b) ==
    { k \in DOMAIN matches :
        {matches[k].participant1_id, matches[k].participant2_id} = {a, b} }

RowsOfRound(r) == { k \in DOMAIN matches : matches[k].round = r }

RoundsUsed == { matches[k].round : k \in DOMAIN matches }

\* Rows of round r in which participant a plays.
RowsOfIn(a, r) ==
    { k \in RowsOfRound(r) :
        a \in {matches[k].participant1_id, matches[k].participant2_id} }

\* C1: a round-robin schedule for N >= 2 distinct participants has exactly
\* N*(N-1)/2 matches, every unordered pair of distinct participants is in exactly
\* one match, no participant is paired with itself and no match holds BYE.
C1_RoundRobinComplete ==
    (pc = "done" /\ Len(participants) >= 2) =>
        LET n == Len(participants)
        IN  /\ 2 * Len(matches) = n * (n - 1)
            /\ \A k \in DOMAIN matches :
                  /\ matches[k].participant1_id # matches[k].participant2_id
                  /\ matches[k].participant1_id \in ParticipantIds
                  /\ matches[k].participant2_id \in ParticipantIds
                  /\ BYE \notin {matches[k].participant1_id, matches[k].participant2_id}
            /\ \A a, b \in ParticipantIds :
                  a # b => Cardinality(PairRows(a, b)) = 1

\* An odd field (a BYE entry was added) and an even field have been scheduled.
C1_Witness ==
    /\ pc = "done"
    /\ Len(participants) = 5
    /\ Len(matches) = 10

\* C7: even N gives rounds 1..N-1 of N/2 matches, odd N gives rounds 1..N of
\* (N-1)/2 matches; nobody plays twice in a round, and for odd N exactly one
\* participant is idle in each round.
C7_RoundRobinRounds ==
    (pc = "done" /\ Len(participants) >= 2) =>
        LET n == Len(participants)
            even == n % 2 = 0
            lastRound == IF even THEN n - 1 ELSE n
            perRound == IF even THEN n \div 2 ELSE (n - 1) \div 2
        IN  /\ RoundsUsed = 1..lastRound
            /\ \A r \in 1..lastRound : Cardinality(RowsOfRound(r)) = perRound
            /\ \A r \in 1..lastRound : \A a \in ParticipantIds :
                  Cardinality(RowsOfIn(a, r)) <= 1
            /\ ~even =>
                  \A r \in 1..lastRound :
                     Cardinality({ a \in ParticipantIds : RowsOfIn(a, r) = {} }) = 1

C7_Witness ==
    /\ pc = "done"
    /\ Len(participants) = 5
    /\ RoundsUsed = 1..5
    /\ Cardinality(RowsOfRound(3)) = 2

\* The least power of two that is >= n, for n >= 1.
BracketSizeFor(n) == CHOOSE b \in { 2^r : r \in 0..n } : b >= n /\ b < 2 * n

\* C2: a single-elimination bracket has bracketSize/2 matches in its first round,
\* half as many in each following round down to 1 in the last, bracketSize - 1
\* in total; rounds are consecutive from startRound and the k matches of a round
\* are numbered 1..k.
C2_BracketShape ==
    (pc = "done" /\ Len(participants) >= 2) =>
        LET bracketSize == BracketSizeFor(Len(participants))
            first == args.startRound
            count(r) == Cardinality(RowsOfRound(r))
        IN  /\ count(first) = bracketSize \div 2
            /\ Len(matches) = bracketSize - 1
            /\ \E last \in first..(first + Len(matches)) :
                  /\ RoundsUsed = first..last
                  /\ count(last) = 1
                  /\ \A r \in (first + 1)..last : 2 * count(r) = count(r - 1)
            /\ \A r \in RoundsUsed :
                  { matches[k].match_number : k \in RowsOfRound(r) } = 1..count(r)

\* A bracket of three rounds that does not start at round 1.
C2_Witness ==
    /\ pc = "done"
    /\ Len(participants) = 5
    /\ args.startRound = 2
    /\ Len(matches) = 7
    /\ RoundsUsed = 2..4

FirstRoundRows == RowsOfRound(args.startRound)

\* C8: the first round has exactly bracketSize - N matches with a null opponent,
\* the null slot is always participant2_id, no first-round match is empty, every
\* participant is in exactly one first-round slot, and no first-round match is
\* created with a winner or a score.
C8_FirstRoundByes ==
    (pc = "done" /\ Len(participants) >= 2) =>
        LET n == Len(participants)
            bracketSize == BracketSizeFor(n)
        IN  /\ Cardinality({ k \in FirstRoundRows :
                                matches[k].participant2_id = NULL }) = bracketSize - n
            /\ \A k \in FirstRoundRows : matches[k].participant1_id # NULL
            /\ \A a \in ParticipantIds :
                  /\ Cardinality({ k \in FirstRoundRows :
                                     matches[k].participant1_id = a }) +
                     Cardinality({ k \in FirstRoundRows :
                                     matches[k].participant2_id = a }) = 1
            /\ \A k \in FirstRoundRows :
                  /\ matches[k].winner_id = NULL
                  /\ matches[k].score = NoText
                  /\ matches[k].status = "pending"

\* Five participants: a bracket of 8 with 3 byes.
C8_Witness ==
    /\ pc = "done"
    /\ Len(participants) = 5
    /\ Cardinality({ k \in FirstRoundRows : matches[k].participant2_id = NULL }) = 3

\* Seed 1 and seed N are the two participants of a first-round match.
FirstMeetsLast ==
    \E k \in FirstRoundRows :
        {matches[k].participant1_id, matches[k].participant2_id}
            = {participants[1].id, participants[Len(participants)].id}

\* C9 as stated: for N > 2, seed 1 and seed N never meet in the first round.
C9_Original ==
    (pc = "done" /\ Len(participants) > 2) => ~FirstMeetsLast

\* C9 as amended: for N > 2, seed 1 and seed N meet in the first round exactly
\* when N is a power of two (the field fills the bracket); they never meet when
\* N is not a power of two.
C9_SeedOneMeetsLastIffFull ==
    (pc = "done" /\ Len(participants) > 2) =>
        (FirstMeetsLast <=> Len(participants) = BracketSizeFor(Len(participants)))

\* Both cases: a full bracket of 4 where they meet, a field of 5 or 6 where not.
C9_Witness ==
    /\ pc = "done"
    /\ Len(participants) = 6
    /\ ~FirstMeetsLast
    /\ matches[1].participant1_id = participants[1].id
    /\ matches[1].participant2_id = NULL

C9_WitnessFull ==
    /\ pc = "done"
    /\ Len(participants) = 4
    /\ FirstMeetsLast

\* The group a participant is scheduled in: its group_number, 1 when unset.
GroupOfId(a) ==
    LET p == CHOOSE q \in { participants[i] : i \in DOMAIN participants } : q.id = a
    IN  IF p.group_number = NullNum THEN 1 ELSE p.group_number

\* C10: the group + knockout generator schedules each group as a round robin of
\* stage group with the group's number: every pair of one group is in exactly one
\* match, no match crosses groups, no knockout match is produced, and the
\* groupsCount argument has no influence.
C10_GroupStageOnly ==
    pc = "done" =>
        /\ \A k \in DOMAIN matches :
              /\ matches[k].stage = "group"
              /\ matches[k].participant1_id \in ParticipantIds
              /\ matches[k].participant2_id \in ParticipantIds
              /\ matches[k].participant1_id # matches[k].participant2_id
              /\ GroupOfId(matches[k].participant1_id) = matches[k].group_number
              /\ GroupOfId(matches[k].participant2_id) = matches[k].group_number
        /\ \A a, b \in ParticipantIds :
              (a # b /\ GroupOfId(a) = GroupOfId(b)) => Cardinality(PairRows(a, b)) = 1
        /\ \A c \in 1..(MaxGroupsCount + 1) :
              matches = GroupKnockoutMatches(participants, c)

\* Two groups, one of them with a single participant and so without a match, the
\* other holding a participant whose group number is unset.
C10_Witness ==
    /\ pc = "done"
    /\ Len(participants) = 4
    /\ Cardinality({ a \in ParticipantIds : GroupOfId(a) = 2 }) = 1
    /\ \E i \in DOMAIN participants : participants[i].group_number = NullNum
    /\ Len(matches) = 3
    /\ \A k \in DOMAIN matches : matches[k].group_number = 1

\* C3: a call for a knockout match of round r, number m, with a winner leaves the
\* winner in the knockout match of round r+1 with number ceil(m/2): in
\* participant1_id when m is odd, in participant2_id when m is even.
C3_AdvanceAddressing ==
    (args.kind = "advance" /\ args.match.stage = "knockout"
        /\ args.match.winner_id # NULL) =>
        LET r == args.match.round
            m == args.match.match_number
        IN  \A k \in DOMAIN matches :
               ( /\ matches[k].stage = "knockout"
                 /\ matches[k].round = r + 1
                 /\ 2 * matches[k].match_number \in {m, m + 1} ) =>
                    /\ m % 2 = 1 => matches[k].participant1_id = args.match.winner_id
                    /\ m % 2 = 0 => matches[k].participant2_id = args.match.winner_id

\* Round 1, match 3 has fed participant1 of round 2, match 2, which was empty.
C3_Witness ==
    /\ args.kind = "advance"
    /\ format = "single_elimination"
    /\ args.match.round = 1
    /\ args.match.match_number = 3
    /\ args.match.winner_id # NULL
    /\ \E k \in DOMAIN matches :
          /\ matches[k].round = 2
          /\ matches[k].match_number = 2
          /\ matches[k].participant1_id = args.match.winner_id
          /\ args.before[k].participant1_id = NULL
          /\ matches[k].participant2_id = args.before[k].participant2_id

\* C4: every completed match has a score and a winner, and the winner is one of
\* its two current participants.
C4_CompletedHasWinnerInSlots ==
    \A k \in DOMAIN matches :
        matches[k].status = "completed" =>
            /\ ~TextFalsy(matches[k].score)
            /\ matches[k].winner_id # NULL
            /\ matches[k].winner_id \in
                   {matches[k].participant1_id, matches[k].participant2_id}

\* The standing of participant a in a returned list.
StandingOf(list, a) == list[CHOOSE i \in DOMAIN list : list[i].participant.id = a]

RECURSIVE SumSeq(_)
SumSeq(ns) == IF ns = <<>> THEN 0 ELSE Head(ns) + SumSeq(Tail(ns))

SumOver(fs, pick(_)) == SumSeq([i \in DOMAIN fs |-> pick(fs[i])])

\* C5: a completed match with a well-formed score adds, per fragment g1-g2, g1 to
\* participant1's games won and participant2's games lost and g2 the other way
\* round, counts each set for the side with strictly more games (for neither on
\* a tie), and adds 1 to played of both; "6-4, 3-6, 7-5" won by participant1
\* gives 1/1/0, sets 2-1, games 16-15, 3 points against 1/0/1, 1-2, 15-16, 0.
C5_ScoreContribution ==
    pc = "done" =>
        LET last == matches[Len(matches)]
            fs == args.fragments
            prior == CalculateGroupStandings(participants,
                                             SubSeq(matches, 1, Len(matches) - 1))
            p1Before == StandingOf(prior, last.participant1_id)
            p2Before == StandingOf(prior, last.participant2_id)
            p1After == StandingOf(standings, last.participant1_id)
            p2After == StandingOf(standings, last.participant2_id)
            firstGames(f) == f[1]
            secondGames(f) == f[2]
            firstSet(f) == IF f[1] > f[2] THEN 1 ELSE 0
            secondSet(f) == IF f[2] > f[1] THEN 1 ELSE 0
        IN  /\ p1After.games_won = p1Before.games_won + SumOver(fs, firstGames)
            /\ p2After.games_lost = p2Before.games_lost + SumOver(fs, firstGames)
            /\ p2After.games_won = p2Before.games_won + SumOver(fs, secondGames)
            /\ p1After.games_lost = p1Before.games_lost + SumOver(fs, secondGames)
            /\ p1After.sets_won = p1Before.sets_won + SumOver(fs, firstSet)
            /\ p2After.sets_lost = p2Before.sets_lost + SumOver(fs, firstSet)
            /\ p2After.sets_won = p2Before.sets_won + SumOver(fs, secondSet)
            /\ p1After.sets_lost = p1Before.sets_lost + SumOver(fs, secondSet)
            /\ p1After.played = p1Before.played + 1
            /\ p2After.played = p2Before.played + 1
            /\ ( /\ fs = << <<6, 4>>, <<3, 6>>, <<7, 5>> >>
                 /\ Len(matches) = 1
                 /\ last.winner_id = last.participant1_id ) =>
                   /\ p1After = [ participant |-> p1After.participant,
                                  played |-> 1, won |-> 1, lost |-> 0,
                                  sets_won |-> 2, sets_lost |-> 1,
                                  games_won |-> 16, games_lost |-> 15, points |-> 3 ]
                   /\ p2After = [ participant |-> p2After.participant,
                                  played |-> 1, won |-> 0, lost |-> 1,
                                  sets_won |-> 1, sets_lost |-> 2,
                                  games_won |-> 15, games_lost |-> 16, points |-> 0 ]

\* The score "6-4, 3-6, 7-5", won by participant 1, has been counted.
C5_Witness ==
    /\ pc = "done"
    /\ Len(matches) = 1
    /\ matches[1].score = <<"6", "-", "4", ",", " ", "3", "-", "6", ",", " ", "7", "-", "5">>
    /\ matches[1].winner_id = matches[1].participant1_id
    /\ StandingOf(standings, matches[1].participant1_id).games_won = 16
    /\ StandingOf(standings, matches[1].participant1_id).sets_won = 2

\* A score with a tied set, counted on top of an earlier match.
C5_WitnessTie ==
    /\ pc = "done"
    /\ Len(matches) = 2
    /\ args.fragments = << <<2, 2>>, <<1, 2>> >>
    /\ StandingOf(standings, matches[2].participant1_id).sets_won = 0
    /\ StandingOf(standings, matches[2].participant2_id).sets_won = 2

\* The three sort keys of a standing.
SetDiff(x) == x.sets_won - x.sets_lost
GameDiff(x) == x.games_won - x.games_lost

SameKeys(x, y) ==
    x.points = y.points /\ SetDiff(x) = SetDiff(y) /\ GameDiff(x) = GameDiff(y)

\* x ranks strictly above y.
RanksAbove(x, y) ==
    \/ x.points > y.points
    \/ x.points = y.points /\ SetDiff(x) > SetDiff(y)
    \/ x.points = y.points /\ SetDiff(x) = SetDiff(y) /\ GameDiff(x) > GameDiff(y)

InputPosition(a) == CHOOSE i \in DOMAIN participants : participants[i].id = a

\* C6: the returned list is ordered by points, then set difference, then game
\* difference, each descending; more points always come first, and standings
\* equal on all three keys keep the order of the participant list.
C6_StandingsOrder ==
    pc = "done" =>
        /\ Len(standings) = Len(participants)
        /\ \A i, j \in DOMAIN standings :
              i < j =>
                 /\ ~RanksAbove(standings[j], standings[i])
                 /\ standings[i].points >= standings[j].points
                 /\ SameKeys(standings[i], standings[j]) =>
                       InputPosition(standings[i].participant.id)
                           < InputPosition(standings[j].participant.id)

\* More points with the worse set and game difference comes first, and two
\* standings tied on every key with points stay in input order behind it.
C6_Witness ==
    /\ pc = "done"
    /\ standings[1].points > standings[2].points
    /\ SetDiff(standings[1]) < SetDiff(standings[2])
    /\ GameDiff(standings[1]) < GameDiff(standings[2])

C6_WitnessTie ==
    /\ pc = "done"
    /\ standings[1].points = 3
    /\ SameKeys(standings[1], standings[2])
    /\ participants[2].id = standings[1].participant.id
    /\ participants[3].id = standings[2].participant.id
    /\ participants[1].id = standings[3].participant.id

(***************************************************************************)
(* Properties of advanceWinnerToNextRound, continued.                      *)
(***************************************************************************)
\* The (row, column) positions in which two tables of equal length differ.
Columns == {"round", "match_number", "stage", "group_number", "participant1_id",
            "participant2_id", "score", "winner_id", "status", "scheduled_date"}

ChangedCells(before, after) ==
    { <<k, c>> \in (DOMAIN before) \X Columns : before[k][c] # after[k][c] }

\* The slot the call addresses: participant1 for an odd match number.
AddressedColumn(match) ==
    IF match.match_number % 2 = 1 THEN "participant1_id" ELSE "participant2_id"

\* C11: a call of advanceWinnerToNextRound with a match whose stage is not
\* "knockout", or whose winner_id is null, leaves every stored match as it was.
C11_AdvanceNoOp ==
    (args.kind = "advance"
        /\ (args.match.stage # "knockout" \/ args.match.winner_id = NULL))
    => matches = args.before

\* A group-stage match with a winner is passed while the bracket holds a match
\* of the next round with the number the call would address.
C11_Witness ==
    /\ args.kind = "advance"
    /\ args.match.stage = "group"
    /\ args.match.winner_id # NULL
    /\ \E k \in DOMAIN args.before :
         /\ args.before[k].stage = "knockout"
         /\ args.before[k].round = args.match.round + 1
         /\ args.before[k].match_number = (args.match.match_number + 1) \div 2
    /\ matches = args.before

\* A knockout match without winner is passed after a winner was advanced into
\* the slot it addresses.
C11_WitnessNoWinner ==
    /\ args.kind = "advance"
    /\ args.match.stage = "knockout"
    /\ args.match.winner_id = NULL
    /\ \E k \in DOMAIN args.before :
         /\ args.before[k].stage = "knockout"
         /\ args.before[k].round = args.match.round + 1
         /\ args.before[k].match_number = (args.match.match_number + 1) \div 2
         /\ args.before[k][AddressedColumn(args.match)] # NULL
    /\ matches = args.before

\* C12: one call changes at most one participant slot of at most one stored
\* match: the addressed slot of the match of the next round, set to the winner.
\* The other slot, every other column and every other match stay as they were,
\* and nothing changes when no match of the next round carries the number.
C12_AdvanceWritesOneSlot ==
    args.kind = "advance"
    => /\ Len(matches) = Len(args.before)
       /\ Cardinality(ChangedCells(args.before, matches)) <= 1
       /\ \A cell \in ChangedCells(args.before, matches) :
            /\ cell[2] = AddressedColumn(args.match)
            /\ args.before[cell[1]].stage = "knockout"
            /\ args.before[cell[1]].round = args.match.round + 1
            /\ args.before[cell[1]].match_number = (args.match.match_number + 1) \div 2
            /\ matches[cell[1]][cell[2]] = args.match.winner_id
       /\ (~ \E k \in DOMAIN args.before :
               /\ args.before[k].stage = "knockout"
               /\ args.before[k].round = args.match.round + 1
               /\ args.before[k].match_number = (args.match.match_number + 1) \div 2)
          => matches = args.before

\* A first-round winner was written into a match of round 2 whose other slot is
\* still empty, while a match of round 3 exists and keeps both slots empty.
C12_Witness ==
    /\ args.kind = "advance"
    /\ args.match.round = 1
    /\ \E cell \in ChangedCells(args.before, matches) :
         /\ matches[cell[1]].round = 2
         /\ \E c \in {"participant1_id", "participant2_id"} \ {cell[2]} :
              matches[cell[1]][c] = NULL
    /\ \E k \in DOMAIN matches :
         /\ matches[k].round = 3
         /\ matches[k].participant1_id = NULL
         /\ matches[k].participant2_id = NULL

\* The final's winner is passed: no match of a next round exists.
C12_WitnessFinal ==
    /\ args.kind = "advance"
    /\ format = "single_elimination"
    /\ args.match.winner_id # NULL
    /\ ~ \E k \in DOMAIN args.before : args.before[k].round = args.match.round + 1
    /\ matches = args.before

(***************************************************************************)
(* Properties of the counting of calculateGroupStandings.                  *)
(***************************************************************************)
Probe == matches[args.probe]

\* The match list without the probe.
WithoutProbe ==
    [i \in 1..(Len(matches) - 1) |->
        IF i < args.probe THEN matches[i] ELSE matches[i + 1]]

\* The standings of the match list without the probe.
StandingsWithoutProbe == CalculateGroupStandings(participants, WithoutProbe)

Statistics == {"played", "won", "lost", "sets_won", "sets_lost",
               "games_won", "games_lost", "points"}

\* What the probe added to statistic c of participant a.
Gain(a, c) == StandingOf(standings, a)[c] - StandingOf(StandingsWithoutProbe, a)[c]

\* The probe passes the filter and both its slots name participants.
ProbeCounted ==
    /\ Probe.status = "completed"
    /\ ~TextFalsy(Probe.score)
    /\ Probe.participant1_id \in ParticipantIds
    /\ Probe.participant2_id \in ParticipantIds

\* C13: a completed match in which participant1_id or participant2_id is null
\* or names no participant of the list contributes nothing: the standings are
\* those of the match list without it.
C13_UnknownParticipantSkipped ==
    (pc = "done"
        /\ (Probe.participant1_id \notin ParticipantIds
               \/ Probe.participant2_id \notin ParticipantIds))
    => standings = StandingsWithoutProbe

\* A completed, scored match of p1 against an empty slot, beside a counted match.
C13_Witness ==
    /\ pc = "done"
    /\ Probe.status = "completed"
    /\ Probe.score = <<"6", "-", "4">>
    /\ Probe.participant1_id = "p1"
    /\ Probe.participant2_id = NULL
    /\ Len(matches) = 2
    /\ \E i \in DOMAIN standings : standings[i].played > 0
    /\ standings = StandingsWithoutProbe

\* The same with a slot that names no participant of the list.
C13_WitnessUnknown ==
    /\ pc = "done"
    /\ Probe.status = "completed"
    /\ Probe.score = <<"6", "-", "4">>
    /\ Probe.participant1_id = UNKNOWN
    /\ Probe.participant2_id = "p2"
    /\ standings = StandingsWithoutProbe

\* A fragment is well formed when it consists of exactly two numbers around one
\* dash, neither side empty.
WellFormedFragment(set) ==
    LET parts == Split(set, "-")
    IN  /\ Len(parts) = 2
        /\ \A i \in 1..2 : Trim(parts[i]) # <<>> /\ ~ToNumber(parts[i]).nan

RECURSIVE WellFormedTally(_)
WellFormedTally(sets) ==
    IF sets = <<>> THEN NoTally
    ELSE LET h == IF WellFormedFragment(Head(sets)) THEN SetTally(Head(sets)) ELSE NoTally
             r == WellFormedTally(Tail(sets))
         IN  [ p1Sets |-> h.p1Sets + r.p1Sets, p2Sets |-> h.p2Sets + r.p2Sets,
               p1Games |-> h.p1Games + r.p1Games, p2Games |-> h.p2Games + r.p2Games ]

\* C14: a malformed fragment ("6", "6-", "6-4-2", "abc") adds nothing to the
\* sets or games of either participant: the sets and games a counted match adds
\* are those of its well-formed fragments, while played goes up by one for both
\* and won, lost and points follow winner_id.
C14_MalformedFragmentsAddNothing ==
    (pc = "done" /\ ProbeCounted
        /\ Probe.participant1_id # Probe.participant2_id
        /\ Probe.winner_id \in {Probe.participant1_id, Probe.participant2_id})
    => LET a == Probe.participant1_id
           b == Probe.participant2_id
           t == WellFormedTally(ScoreSets(Probe.score))
       IN  /\ Gain(a, "sets_won") = t.p1Sets /\ Gain(a, "sets_lost") = t.p2Sets
           /\ Gain(b, "sets_won") = t.p2Sets /\ Gain(b, "sets_lost") = t.p1Sets
           /\ Gain(a, "games_won") = t.p1Games /\ Gain(a, "games_lost") = t.p2Games
           /\ Gain(b, "games_won") = t.p2Games /\ Gain(b, "games_lost") = t.p1Games
           /\ Gain(a, "played") = 1 /\ Gain(b, "played") = 1
           /\ \A x \in {a, b} :
                /\ Gain(x, "won") = (IF Probe.winner_id = x THEN 1 ELSE 0)
                /\ Gain(x, "lost") = (IF Probe.winner_id = x THEN 0 ELSE 1)
                /\ Gain(x, "points") = (IF Probe.winner_id = x THEN 3 ELSE 0)

\* The fragments without a dash or with a non-numeric side do add nothing.
C14_NonNumericAddsNothing ==
    (pc = "done" /\ ProbeCounted
        /\ Probe.participant1_id # Probe.participant2_id
        /\ Probe.score \in { <<"6">>, <<"a">>, <<"6", "-", "a">> })
    => \A x \in {Probe.participant1_id, Probe.participant2_id} :
          /\ Gain(x, "played") = 1
          /\ \A c \in {"sets_won", "sets_lost", "games_won", "games_lost"} : Gain(x, c) = 0

\* C15: a counted match adds one to won and 3 to points only for the
\* participant whose id equals winner_id, and one to lost only for the other
\* participant of the match; a participant whose id differs from winner_id
\* gains neither won nor points.
C15_OnlyWinnerCredited ==
    (pc = "done" /\ ProbeCounted /\ Probe.participant1_id # Probe.participant2_id)
    => \A x \in ParticipantIds :
          /\ Gain(x, "won") = (IF x = Probe.winner_id THEN 1 ELSE 0)
          /\ Gain(x, "points") = (IF x = Probe.winner_id THEN 3 ELSE 0)
          /\ Gain(x, "lost") =
                (IF /\ x \in {Probe.participant1_id, Probe.participant2_id}
                    /\ x # Probe.winner_id
                    /\ Probe.winner_id \in {Probe.participant1_id, Probe.participant2_id}
                 THEN 1 ELSE 0)

\* When winner_id is one of the two participants the credit is as stated.
C15_WinnerInMatchCredited ==
    (pc = "done" /\ ProbeCounted /\ Probe.participant1_id # Probe.participant2_id
        /\ Probe.winner_id \in {Probe.participant1_id, Probe.participant2_id})
    => \A x \in ParticipantIds :
          /\ Gain(x, "won") = (IF x = Probe.winner_id THEN 1 ELSE 0)
          /\ Gain(x, "points") = (IF x = Probe.winner_id THEN 3 ELSE 0)
          /\ Gain(x, "lost") =
                (IF x \in {Probe.participant1_id, Probe.participant2_id} \ {Probe.winner_id}
                 THEN 1 ELSE 0)

\* The matches of a that pass the filter.
FilteredMatchesOf(a) ==
    { i \in DOMAIN matches :
        /\ matches[i].status = "completed"
        /\ ~TextFalsy(matches[i].score)
        /\ a \in {matches[i].participant1_id, matches[i].participant2_id} }

\* C16: a match whose status is pending or in_progress, or whose score is null
\* or empty, leaves every standing as it is without the match; a participant
\* none of whose matches is completed with a non-empty score has all statistics
\* 0; the result holds exactly one standing for each participant.
C16_OnlyCompletedScoredCount ==
    pc = "done"
    => /\ (Probe.status # "completed" \/ Probe.score \in {NoText, <<>>})
          => standings = StandingsWithoutProbe
       /\ \A a \in ParticipantIds :
            FilteredMatchesOf(a) = {}
            => \A c \in Statistics : StandingOf(standings, a)[c] = 0
       /\ Len(standings) = Len(participants)
       /\ \A a \in ParticipantIds :
            Cardinality({ i \in DOMAIN standings : standings[i].participant.id = a }) = 1

\* A pending match with a well-formed score and a winner, between two
\* participants, beside a counted match of one of them.
C16_Witness ==
    /\ pc = "done"
    /\ Probe.status = "pending"
    /\ Probe.score = <<"6", "-", "4">>
    /\ Probe.participant1_id = "p1" /\ Probe.participant2_id = "p2"
    /\ Probe.winner_id = "p1"
    /\ Len(matches) = 2
    /\ StandingOf(standings, "p3").played = 1
    /\ StandingOf(standings, "p1").played = 0

\* A completed match with an empty score.
C16_WitnessEmptyScore ==
    /\ pc = "done"
    /\ Probe.status = "completed"
    /\ Probe.score = <<>>
    /\ Probe.participant1_id = "p1" /\ Probe.participant2_id = "p2"
    /\ \A i \in DOMAIN standings : standings[i].played = 0

(***************************************************************************)
(* Properties of the generators, continued.                                *)
(***************************************************************************)
\* C18: each generator called with 0 or 1 participants stores no match.
C18_SmallFieldNoOp ==
    (pc = "done" /\ Len(participants) < 2) => matches = <<>>

\* The round-robin and the group generator do store nothing for 0 or 1
\* participants, and so does the bracket generator for 0.
C18_SmallFieldNoOpButOneSeed ==
    (pc = "done" /\ Len(participants) < 2
        /\ ~(args.kind = "se" /\ Len(participants) = 1))
    => matches = <<>>

\* Match numbers of the rows of round r, in the order of insertion.
RECURSIVE NumbersOfRound(_, _)
NumbersOfRound(ms, r) ==
    IF ms = <<>> THEN <<>>
    ELSE (IF Head(ms).round = r THEN <<Head(ms).match_number>> ELSE <<>>)
         \o NumbersOfRound(Tail(ms), r)

\* C20 as stated: the k matches of every round carry the numbers 1, ..., k in
\* the order of pairing, for odd as well as even participant counts.
C20_Original ==
    (pc = "done" /\ Len(participants) >= 2)
    => \A r \in RoundsUsed :
          NumbersOfRound(matches, r) = [i \in 1..Len(NumbersOfRound(matches, r)) |-> i]

\* C20: the match number is the 1-based position of the pairing in its round,
\* the pairing with the bye included.  For an even count N the N/2 matches of a
\* round carry 1, ..., N/2.  For an odd count the (N-1)/2 matches of a round
\* carry, in increasing order, all numbers of 1, ..., (N+1)/2 but one, and in
\* round 1 the number left out is 1.
C20_MatchNumbersArePairingPositions ==
    (pc = "done" /\ Len(participants) >= 2)
    => LET n == Len(participants)
           half == (n + 1) \div 2
       IN  \A r \in RoundsUsed :
              LET nums == NumbersOfRound(matches, r)
              IN  /\ \A i \in DOMAIN nums : nums[i] \in 1..half
                  /\ \A i, j \in DOMAIN nums : i < j => nums[i] < nums[j]
                  /\ Len(nums) = n \div 2
                  /\ (n % 2 = 1 /\ r = 1) => nums = [i \in 1..(n \div 2) |-> i + 1]

\* Three participants: round 1 holds the single match number 2.
C20_Witness ==
    /\ pc = "done"
    /\ Len(participants) = 3
    /\ NumbersOfRound(matches, 1) = <<2>>
    /\ \E r \in RoundsUsed : NumbersOfRound(matches, r) = <<1>>

\* Four participants: every round holds the numbers 1, 2.
C20_WitnessEven ==
    /\ pc = "done"
    /\ Len(participants) = 4
    /\ \A r \in 1..3 : NumbersOfRound(matches, r) = <<1, 2>>

(***************************************************************************)
(* Properties of the handlers, continued.                                  *)
(***************************************************************************)
\* The schedule a regeneration is to store.
NewSchedule == GenerateForFormat(format, participants, MaxGroup)

\* C17: whatever storage statement is refused, after a generate_matches request
\* the table holds exactly the prior matches or exactly the new schedule.
C17_RegenerationAllOrNothing ==
    (args.kind = "generate_matches" /\ "before" \in DOMAIN args)
    => matches \in {args.before, NewSchedule}

\* With no refused statement the table holds the new schedule after a
\* successful request, and the prior matches after a rejected one.
C17_RegenerationWithoutFailure ==
    (args.kind = "generate_matches" /\ "before" \in DOMAIN args
        /\ ~args.deleteFailed /\ args.failedInsert = 0)
    => matches = (IF response = 200 THEN NewSchedule ELSE args.before)

\* The row that feeds column c of the bracket row k, if any.
Feeders(ms, k, c) ==
    { j \in DOMAIN ms :
        /\ ms[j].stage = "knockout"
        /\ ms[j].round = ms[k].round - 1
        /\ ms[j].match_number =
              (IF c = "participant1_id" THEN 2 * ms[k].match_number - 1
               ELSE 2 * ms[k].match_number) }

ParticipantColumns == {"participant1_id", "participant2_id"}

LaterRoundRows(ms) == { k \in DOMAIN ms : ms[k].round > 1 }

\* Every slot of a round after the first is null or holds the current winner of
\* its feeder, and is null in the schedule as generated.
C19_SlotsFollowFeeders ==
    \A k \in LaterRoundRows(matches) : \A c \in ParticipantColumns :
        /\ nreq = 0 => matches[k][c] = NULL
        /\ \/ matches[k][c] = NULL
           \/ \E j \in Feeders(matches, k, c) : matches[j].winner_id = matches[k][c]

\* A step changes such a slot only by a result stored for its feeder.
C19_OnlyFeederWrites ==
    \A k \in LaterRoundRows(matches) : \A c \in ParticipantColumns :
        matches'[k][c] # matches[k][c]
        => /\ args'.kind = "patch"
           /\ response' = 200
           /\ args'.matchId \in Feeders(matches, k, c)
           /\ matches'[k][c] = matches'[args'.matchId].winner_id

\* C19: in a single-elimination bracket every match of a round after the first
\* is created with both slots null; with requests handled one at a time, every
\* such slot is at all times null or equal to the current winner_id of its
\* feeder (match 2k-1 of the round before for participant1 of match k, match 2k
\* for participant2), and only the advancement of that feeder writes it.
C19_PlaceholderSlots ==
    [] C19_SlotsFollowFeeders /\ [][C19_OnlyFeederWrites]_vars

\* A slot of round 3 holds the winner of its feeder of round 2, whose slot
\* holds the winner of a match of round 1.
C19_Witness ==
    \E k \in DOMAIN matches : \E c \in ParticipantColumns :
        /\ matches[k].round = 3
        /\ matches[k][c] # NULL
        /\ \E j \in Feeders(matches, k, c) :
             /\ matches[j].winner_id = matches[k][c]
             /\ matches[j].status = "completed"

\* A first-round result was stored again with the other winner after the match
\* of the next round was completed: its slot holds the new winner of the feeder.
C19_WitnessResubmitted ==
    \E k \in DOMAIN matches : \E c \in ParticipantColumns :
        /\ matches[k].round = 2
        /\ matches[k].status = "completed"
        /\ matches[k].winner_id \notin {matches[k].participant1_id, matches[k].participant2_id}
        /\ matches[k][c] # NULL
        /\ \E f \in Feeders(matches, k, c) : matches[f].winner_id = matches[k][c]

(***************************************************************************)
(* Properties of requests handled at the same time.                        *)
(***************************************************************************)
BothDone == \A r \in Requests : pc[r] = "done"

\* The rows of the round before whose advancement addresses column c of row k.
Advancers(ms, k, c) ==
    { j \in DOMAIN ms :
        /\ k \in AdvanceTargets(ms, ms[j])
        /\ c = (IF IsFirstOfPair(ms[j]) THEN "participant1_id" ELSE "participant2_id") }

\* C21: every participant slot of every match after the first round is the
\* advancement target of exactly one match of the previous round; and when the
\* results of the two feeders of one match are handled at the same time, the
\* match ends up with both winners, each in its own slot, in every interleaving.
C21_FeedersFillBothSlots ==
    /\ \A k \in LaterRoundRows(matches) : \A c \in ParticipantColumns :
          /\ Cardinality(Advancers(matches, k, c)) = 1
          /\ Advancers(matches, k, c) = Feeders(matches, k, c)
    /\ (BothDone /\ \A r \in Requests : response[r] = 200)
       => \A k \in LaterRoundRows(matches) :
             (/\ args[1].matchId \in Feeders(matches, k, "participant1_id")
              /\ args[2].matchId \in Feeders(matches, k, "participant2_id"))
             => /\ matches[k].participant1_id = args[1].winnerId
                /\ matches[k].participant2_id = args[2].winnerId

\* Both feeders of the final of four were submitted at the same time and the
\* final holds both winners.
C21_Witness ==
    /\ BothDone
    /\ Len(participants) = 4
    /\ args[1].matchId = 1 /\ args[2].matchId = 2
    /\ response[1] = 200 /\ response[2] = 200
    /\ args[1].updatedMatch.status = "completed"
    /\ matches[3].participant1_id = args[1].winnerId
    /\ matches[3].participant2_id = args[2].winnerId

\* Both requests have read the table and are about to write into the final.
C21_WitnessOverlap ==
    /\ \A r \in Requests : pc[r] = "updateNextMatch"
    /\ args[1].matchId # args[2].matchId
    /\ args[1].nextMatch = args[2].nextMatch

\* C24: when two results for the same knockout match with different winners
\* are handled at the same time, then once both requests have finished the slot
\* of the next match fed by that match equals the stored winner_id.
C24_SlotEqualsStoredWinner ==
    (/\ BothDone
     /\ args[1].matchId = args[2].matchId
     /\ args[1].winnerId # args[2].winnerId
     /\ response[1] = 200 /\ response[2] = 200)
    => \A k \in LaterRoundRows(matches) : \A c \in ParticipantColumns :
          args[1].matchId \in Feeders(matches, k, c)
          => matches[k][c] = matches[args[1].matchId].winner_id

\* The slot does hold one of the two submitted winners.
C24_SlotHoldsASubmittedWinner ==
    (/\ BothDone
     /\ args[1].matchId = args[2].matchId
     /\ response[1] = 200 /\ response[2] = 200)
    => \A k \in LaterRoundRows(matches) : \A c \in ParticipantColumns :
          args[1].matchId \in Feeders(matches, k, c)
          => matches[k][c] \in {args[1].winnerId, args[2].winnerId}

(***************************************************************************)
(* Properties of a standings request beside a regeneration.                *)
(***************************************************************************)
HasRead == pc.get # "getTournamentMatches"

\* The new schedule as far as the first j insert statements store it.
PartOfNewSchedule(j) ==
    Flatten(SubSeq(InsertBatches(format, participants), 1, j))

C22_WitnessBetweenInserts ==
    /\ pc.get = "done"
    /\ format = "group_knockout"
    /\ args.readAt = "between inserts"
    /\ args.read # <<>>
    /\ Len(args.read) < Len(NewSchedule)

(***************************************************************************)
(* Properties of the handlers: round robin, validation.                    *)
(***************************************************************************)
\* C23: in a round_robin tournament a stored result changes the participants
\* of no match: after any sequence of requests the schedule holds every
\* unordered pair of participants in exactly one match.
C23_RoundRobinPairsKept ==
    (format = "round_robin" /\ matches # <<>>)
    => \A a, b \in ParticipantIds :
          a # b => Cardinality(PairRows(a, b)) = 1

(***************************************************************************)
(* Properties of POST requests handled at the same time.                   *)
(***************************************************************************)
MatchKey(row) == <<row.stage, row.group_number, row.round, row.match_number>>

\* C25: after any interleaving of POST generation requests at most one schedule
\* is stored: no two stored matches have the same stage, group_number, round
\* and match_number, and a request that finds matches stores nothing.
C25_OneSchedule ==
    /\ \A i, j \in DOMAIN matches : i # j => MatchKey(matches[i]) # MatchKey(matches[j])
    /\ \A r \in Requests :
          args[r].existing > 0 => (response[r] = 400 /\ args[r].batch = 1)

\* A request that finds matches answers 400 and inserts nothing.
C25_LateRequestStoresNothing ==
    \A r \in Requests :
        (pc[r] = "done" /\ args[r].existing > 0)
        => (response[r] = 400 /\ args[r].batch = 1)

\* When one of the two requests found matches, no match is stored twice.
C25_OneScheduleWhenOneRejected ==
    ((\A r \in Requests : pc[r] = "done")
        /\ (\E r \in Requests : args[r].existing > 0))
    => \A i, j \in DOMAIN matches :
          i # j => MatchKey(matches[i]) # MatchKey(matches[j])

(***************************************************************************)
(* Properties of a bracket played to its end.                              *)
(***************************************************************************)
LastRound == CHOOSE r \in RoundsUsed : \A q \in RoundsUsed : q <= r

FinalRow == CHOOSE k \in DOMAIN matches : matches[k].round = LastRound

\* The completed matches in which a takes part without being the winner.
LostMatches(a) ==
    { k \in DOMAIN matches :
        /\ matches[k].status = "completed"
        /\ a \in {matches[k].participant1_id, matches[k].participant2_id}
        /\ matches[k].winner_id # a }

PlayedOut ==
    /\ \A k \in DOMAIN matches : matches[k].status = "completed"
    /\ Cardinality(RowsOfRound(LastRound)) = 1
    /\ \A c \in ParticipantColumns : \A j \in Feeders(matches, FinalRow, c) :
          matches[FinalRow][c] = matches[j].winner_id
    /\ matches[FinalRow].winner_id \in ParticipantIds
    /\ \A a \in ParticipantIds \ {matches[FinalRow].winner_id} :
          Cardinality(LostMatches(a)) = 1
    /\ LostMatches(matches[FinalRow].winner_id) = {}

\* C26: in a single-elimination bracket for N >= 2 participants, when every
\* match that has a participant and whose feeders are completed eventually
\* receives one accepted result, then eventually every match is completed, the
\* final holds the winners of the two semi-finals, and every participant but
\* the final's winner is the non-winning participant of exactly one completed
\* match.
C26_BracketPlaysOut == <>[] PlayedOut

\* A bracket of five, with three byes, is played out.
C26_Witness ==
    /\ Len(participants) = 5
    /\ Len(matches) = 7
    /\ PlayedOut
    /\ \E k \in DOMAIN matches :
         matches[k].status = "completed" /\ matches[k].participant2_id = NULL

(***************************************************************************)
(* Balance of the standings.                                               *)
(***************************************************************************)
Total(c) == SumOver(standings, LAMBDA x : x[c])

\* C27: for every participant played = won + lost and points = 3 * won; and
\* summed over all participants won equals lost, sets_won equals sets_lost and
\* games_won equals games_lost.
C27_StandingsBalance ==
    pc = "done"
    => /\ \A i \in DOMAIN standings :
            /\ standings[i].played = standings[i].won + standings[i].lost
            /\ standings[i].points = 3 * standings[i].won
       /\ Total("won") = Total("lost")
       /\ Total("sets_won") = Total("sets_lost")
       /\ Total("games_won") = Total("games_lost")

\* Two counted matches, one of them with a winner that is none of its two
\* participants and a score with a fragment that is not counted.
C27_Witness ==
    /\ pc = "done"
    /\ Len(matches) = 2
    /\ ProbeCounted
    /\ Probe.winner_id \notin {Probe.participant1_id, Probe.participant2_id}
    /\ Probe.score = <<"6", "-", "4", ",", "a">>
    /\ Total("won") = 2
    /\ Total("games_won") > 10

\* A match of a participant against itself is counted twice on one standing.
C27_WitnessSelf ==
    /\ pc = "done"
    /\ ProbeCounted
    /\ Probe.participant1_id = Probe.participant2_id
    /\ StandingOf(standings, "p1").played = 2
    /\ StandingOf(standings, "p1").won = 1
    /\ StandingOf(standings, "p1").lost = 1

(***************************************************************************)
(* Properties of the validation of a result.                               *)
(***************************************************************************)
\* The last request carried no scheduledDate, named a stored match and came
\* from an admin or from a participant of that match.
ResultRequestOfAllowedUser ==
    /\ args.kind = "patch"
    /\ args.scheduledDate = UNDEFINED
    /\ args.matchId \in DOMAIN args.before
    /\ args.user \in {ADMIN} \cup FilledSlots(args.before[args.matchId])

ResultWellFormed ==
    /\ ~TextFalsy(args.score)
    /\ args.winnerId # NULL
    /\ args.winnerId \in FilledSlots(args.before[args.matchId])

\* C28: a result is accepted only if winnerId equals a non-null participant
\* slot of the match as stored when the request is handled; a result with a
\* missing score, a missing winnerId or a winnerId that is not in the match is
\* answered with 400 and leaves every match as it was, so a match with both
\* slots null never becomes completed.
C28_ResultValidated ==
    /\ ResultRequestOfAllowedUser
       => /\ response = 200 <=> ResultWellFormed
          /\ ~ResultWellFormed => (response = 400 /\ matches = args.before)
          /\ response = 200
             => /\ matches[args.matchId].status = "completed"
                /\ matches[args.matchId].winner_id = args.winnerId
    /\ (args.kind = "patch" /\ args.scheduledDate = UNDEFINED /\ response # 200)
       => matches = args.before
    /\ \A k \in DOMAIN matches :
          (matches[k].participant1_id = NULL /\ matches[k].participant2_id = NULL)
          => matches[k].status # "completed"

\* An admin named as winner of the final a participant who is in the bracket
\* but not in the final, whose slots are both null: 400, nothing stored.
C28_Witness ==
    /\ ResultRequestOfAllowedUser
    /\ format = "single_elimination"
    /\ args.user = ADMIN
    /\ args.score = SomeScore
    /\ args.winnerId \in ParticipantIds
    /\ FilledSlots(args.before[args.matchId]) = {}
    /\ response = 400
    /\ matches = args.before

\* A participant of a bye match stored the result of that match.
C28_WitnessAccepted ==
    /\ ResultRequestOfAllowedUser
    /\ args.user = args.winnerId
    /\ args.before[args.matchId].participant2_id = NULL
    /\ response = 200
    /\ matches[args.matchId].status = "completed"

(***************************************************************************)
(* Properties of the booking requests.                                     *)
(***************************************************************************)
\* C29: after any sequence of booking requests a user who is neither an admin
\* nor a participant of an active tournament holds at most one booking on any
\* date, whatever the value of the bookTwoHours flag.
C29_OneBookingPerDay ==
    \A date \in BookingDates : UserBookingsForDate(bookings, GUEST, date) <= 1

\* Requests of the regular user without the flag keep to one booking per day:
\* one that finds a booking of the user on the date is answered with 400.
C29_OneBookingPerDayWithoutFlag ==
    (args.kind = "booking" /\ args.user = GUEST /\ ~args.bookTwoHours)
    => /\ UserBookingsForDate(bookings, GUEST, args.date)
             <= IF UserBookingsForDate(args.before, GUEST, args.date) = 0
                THEN 1 ELSE UserBookingsForDate(args.before, GUEST, args.date)
       /\ UserBookingsForDate(args.before, GUEST, args.date) >= 1
          => (response = 400 /\ bookings = args.before)

\* The regular user's own request leaves the user with one booking on a date
\* that held none of the user's.
C29_OwnRequestStoresOneBooking ==
    (args.kind = "booking" /\ args.user = GUEST
       /\ UserBookingsForDate(args.before, GUEST, args.date) = 0)
    => UserBookingsForDate(bookings, GUEST, args.date) <= 1

(***************************************************************************)
(* Properties of the manual bracket editor.                                *)
(***************************************************************************)
\* Slots of the table ms that hold the id.
SlotsHolding(ms, id) ==
    { <<i, sl>> \in (DOMAIN ms) \X EditorSlots : ms[i][sl] = id }

\* C30: after any sequence of drops (participant or BYE), removeFromSlot,
\* autoAssign and clearAll every participant occupies at most one slot over all
\* matches, and a participant dropped onto a slot is in that slot and no longer
\* in the slot it occupied before.
C30_OneSlotPerParticipant ==
    /\ \A id \in ParticipantIds : Cardinality(SlotsHolding(matches, id)) <= 1
    /\ (args.kind = "drop" /\ args.participantId \in ParticipantIds)
       => /\ matches[args.matchIndex][args.slot] = args.participantId
          /\ \A place \in SlotsHolding(args.before, args.participantId) :
                place # <<args.matchIndex, args.slot>>
                => matches[place[1]][place[2]] = NULL

\* A participant was dragged from one slot to another.
C30_Witness ==
    /\ args.kind = "drop"
    /\ args.participantId \in ParticipantIds
    /\ \E place \in SlotsHolding(args.before, args.participantId) :
          place # <<args.matchIndex, args.slot>>
    /\ SlotsHolding(matches, args.participantId) = {<<args.matchIndex, args.slot>>}

\* autoAssign filled the slots that were empty around participants placed by hand.
C30_WitnessAutoAssign ==
    /\ args.kind = "autoAssign"
    /\ \E id \in ParticipantIds : SlotsHolding(args.before, id) # {}
    /\ \E id \in ParticipantIds :
          SlotsHolding(args.before, id) = {} /\ SlotsHolding(matches, id) # {}

====
